---- MODULE Spec2Model ----
(***************************************************************************)
(* BotBid marketplace: agents, listings, transactions, ratings and credit *)
(* transfers, as implemented by the routers under src/routers, with the   *)
(* registration challenges (utils/agent_verification.py), the API keys    *)
(* (utils/auth.py) and the Guardian (services/guardian_moderator.py).     *)
(*                                                                         *)
(* Money.  The code keeps credits, prices and amounts in Python floats.    *)
(* The model keeps them as integers counted in thousandths of a credit     *)
(* (100.0 credits = 100000), so that prices with more than two decimals    *)
(* exist; round(x, 2) becomes rounding to a multiple of 10.  Where the     *)
(* decimal value lies exactly between two cents the float representation   *)
(* decides which cent Python returns, so the model allows both.            *)
(* Binary representation error of float arithmetic is not modelled.       *)
(*                                                                         *)
(* Time.  The clock now counts milliseconds.  Of the timestamps of the     *)
(* rows completed_at is kept as set or not set and last_active_at as a     *)
(* time; created_at and updated_at are not modelled.                       *)
(***************************************************************************)
EXTENDS Integers, Sequences, FiniteSets, TLC

VARIABLES agents, listings, transactions, ratings, resp, reqs,
          now, last_active_at, api_key_hash, email, n_keys,
          active_challenges, n_challenges,
          agent_trust_scores, flagged_content, moderation_logs, _log_counter,
          categories, watchlist, n_items, messages, view_count,
          storage, served, call

\* the clock, the key and email columns of the agents and the challenges
registry == <<now, api_key_hash, email, n_keys, active_challenges, n_challenges>>

\* the fields of the Guardian instance
guardian == <<agent_trust_scores, flagged_content, moderation_logs, _log_counter>>

\* the tables of the categories, the watchlist items (with the number of
\* items ever created) and the messages, and the column view_count of the
\* listings
community == <<categories, watchlist, n_items, messages, view_count>>

\* the hit counters of the rate limiter, and the requests of each client
\* address that reached a handler within one minute
bootstrap == <<storage, served>>

\* the call of a function of utils/helpers.py or of the SDK that is being
\* followed: its arguments and what it returned or raised
library == <<call>>

vars == <<agents, listings, transactions, ratings, resp, reqs, last_active_at,
          registry, guardian, community, bootstrap, library>>

(***************************************************************************)
(* Bounds of the model.                                                    *)
(***************************************************************************)
MaxRows == 2
MaxCategories == 2
MaxViews == 1
MaxListings == 1
MaxMills == 400
MaxRegistrations == 1
MaxItems == 3
MaxMessages == 2
MaxQty == 2
MaxRequests == 2
MaxSales == 7
MaxChallenges == 2
MaxMinutes == 6
MaxKeys == 5
MaxReviews == 3

(***************************************************************************)
(* Program constants (src/config.py), in thousandths of a credit.          *)
(***************************************************************************)
DEFAULT_AGENT_CREDITS == 100000
\* TRANSACTION_FEE_PERCENT = 2.5, kept as 25 per thousand
TRANSACTION_FEE_PERCENT == 25
MIN_LISTING_PRICE == 10
MAX_LISTING_PRICE == 1000000000

AgentIds == {"a1", "a2", "a3"}
\* request inputs
Prices == {333, 60000}
TransferAmounts == {70000, 120000}
Scores == {2, 5}
ListingIds == 1..MaxRows
TxIds == 1..MaxRows

None == <<>>
\* a text column: None, or the sequence of its lines
BuyerNoteInputs == {None, <<"bn">>}
SellerNoteInputs == {None, <<"sn">>}

AgentStatus == {"active", "suspended", "banned", "pending"}
ListingStatus == {"draft", "active", "sold", "expired", "cancelled"}
TransactionStatus == {"pending", "completed", "failed", "refunded", "disputed"}

(***************************************************************************)
(* Rounding.                                                               *)
(***************************************************************************)
Abs(x) == IF x < 0 THEN -x ELSE x

\* the integers nearest to n / d (two of them when n / d is a tie)
RoundDivSet(n, d) == {k \in ((n \div d) - 1)..((n \div d) + 1) : 2 * Abs(n - k * d) <= d}

\* calculate_transaction_fee: the possible (fee, net) results
calculate_transaction_fee(amount, fee_percent) ==
  UNION { { <<10 * fc, 10 * nc>> : nc \in RoundDivSet(amount - 10 * fc, 10) } :
          fc \in RoundDivSet(amount * fee_percent, 10000) }

(***************************************************************************)
(* Stored rows.                                                            *)
(***************************************************************************)
\* Agent row as register_agent creates it
NewAgent(st) ==
  [status |-> st, credits |-> DEFAULT_AGENT_CREDITS, total_purchases |-> 0,
   total_sales |-> 0, rating_avg |-> 0, rating_count |-> 0]

\* no call of a library function is followed
NoCall == [fn |-> "none"]

\* the last HTTP response: the endpoint, the status code and the detail
NoResp == [op |-> "none", code |-> 0, detail |-> "-"]

Response(op, code, detail) == [op |-> op, code |-> code, detail |-> detail]

(***************************************************************************)
(* API keys (utils/auth.py).  A key is its prefix and its random part.     *)
(***************************************************************************)
API_KEY_PREFIX == "aam_"

\* create_api_key: secrets.token_urlsafe(32) never repeats, the n-th key
\* minted has the random part n
create_api_key(n) == [prefix |-> API_KEY_PREFIX, random |-> n]

\* hash_api_key: the SHA-256 digest, one digest for each key
hash_api_key(api_key) == <<"sha256", api_key.prefix, api_key.random>>

\* the key each of the first agents was given when it registered
FirstKey(a) == create_api_key(IF a = "a1" THEN 1 ELSE IF a = "a2" THEN 2 ELSE 3)

\* a nullable DateTime column that holds no time
NoTime == -1

(***************************************************************************)
(* Slugs and the default categories (utils/helpers.py, main.py).  A text   *)
(* is the sequence of its pieces: words, and the single characters " ",    *)
(* "-", "_", "&" and a check mark (U+2713, not ASCII).                      *)
(***************************************************************************)
NonAscii == {"U+2713"}
WhiteSpace == {" "}
WordChars == {"_"}
Punctuation == {"&"}

\* str.lower on the words that have capitals; every other piece is its own
\* lower case
Lowercase ==
  [w \in {"AI", "Services", "Data", "APIs", "Compute", "Storage", "Knowledge",
          "Tools", "Automation", "Creative", "Other", "TOOLS", "Robots", "Virus"} |->
     CASE w = "AI" -> "ai" [] w = "Services" -> "services" [] w = "Data" -> "data"
       [] w = "APIs" -> "apis" [] w = "Compute" -> "compute" [] w = "Storage" -> "storage"
       [] w = "Knowledge" -> "knowledge" [] w = "Tools" -> "tools"
       [] w = "Automation" -> "automation" [] w = "Creative" -> "creative"
       [] w = "Other" -> "other" [] w = "TOOLS" -> "tools" [] w = "Robots" -> "robots"
       [] w = "Virus" -> "virus"]

lower(text) == [i \in DOMAIN text |->
                 IF text[i] \in DOMAIN Lowercase THEN Lowercase[text[i]] ELSE text[i]]

RECURSIVE lstrip(_, _)
lstrip(text, chars) ==
  IF text # <<>> /\ Head(text) \in chars THEN lstrip(Tail(text), chars) ELSE text

RECURSIVE rstrip(_, _)
rstrip(text, chars) ==
  IF text # <<>> /\ text[Len(text)] \in chars
    THEN rstrip(SubSeq(text, 1, Len(text) - 1), chars)
  ELSE text

\* re.sub(r"[-\s]+", "-", text)
RECURSIVE hyphenate(_)
hyphenate(text) ==
  IF text = <<>> THEN <<>>
  ELSE IF Head(text) \in WhiteSpace \cup {"-"}
    THEN <<"-">> \o hyphenate(lstrip(text, WhiteSpace \cup {"-"}))
  ELSE <<Head(text)>> \o hyphenate(Tail(text))

IsAscii(ch) == ch \notin NonAscii
IsSlugChar(ch) == ch \notin Punctuation

\* slugify: drop what is not ASCII, lower the case, drop what is neither a
\* word character nor white space nor a hyphen, turn every run of white
\* space and hyphens into one hyphen, strip the hyphens at both ends
slugify(text) ==
  LET ascii == SelectSeq(text, IsAscii)
      kept == SelectSeq(lower(ascii), IsSlugChar)
  IN rstrip(lstrip(hyphenate(kept), {"-"}), {"-"})

\* the names of the default categories of seed_default_categories
default_categories ==
  << <<"AI", " ", "Services">>, <<"Data">>, <<"APIs">>, <<"Compute">>, <<"Storage">>,
     <<"Knowledge">>, <<"Tools">>, <<"Automation">>, <<"Creative">>, <<"Other">> >>

\* a row of the table categories; the id of the n-th row created is "c<n>"
Category(rows, name, parent_id) ==
  [id |-> "c" \o ToString(Len(rows) + 1), name |-> name, slug |-> slugify(name),
   parent_id |-> parent_id, is_active |-> TRUE]

Slugs(rows) == {rows[i].slug : i \in DOMAIN rows}

RECURSIVE seeded_Unchecked(_, _)
seeded_Unchecked(rows, n) ==
  IF n = 0 THEN rows
  ELSE LET before == seeded_Unchecked(rows, n - 1)
       IN Append(before, Category(before, default_categories[n], None))

\* seed_default_categories: the table after the first n defaults were
\* looked up and, where no row has the slug, inserted
RECURSIVE seeded(_, _)
seeded(rows, n) ==
  IF n = 0 THEN rows
  ELSE LET before == seeded(rows, n - 1)
           name == default_categories[n]
       IN IF slugify(name) \in Slugs(before) THEN before
          ELSE Append(before, Category(before, name, None))

seed_default_categories(rows) == seeded(rows, Len(default_categories))

\* the clock, the keys, the challenges and the Guardian before the first
\* request: each agent has authenticated once, at time 0 (GET /agents/me)
InitPlatform ==
  /\ now = 0
  /\ last_active_at = [a \in AgentIds |-> 0]
  /\ api_key_hash = [a \in AgentIds |-> hash_api_key(FirstKey(a))]
  /\ email = [a \in AgentIds |-> None]
  /\ n_keys = Cardinality(AgentIds)
  /\ active_challenges = <<>>
  /\ n_challenges = 0
  /\ agent_trust_scores = <<>>
  /\ flagged_content = <<>>
  /\ moderation_logs = <<>>
  /\ _log_counter = 0
  /\ categories = seed_default_categories(<<>>)
  /\ watchlist = <<>>
  /\ n_items = 0
  /\ messages = <<>>
  /\ view_count = <<>>
  /\ storage = <<>>
  /\ served = <<>>

\* The agents are registered before the first request.
InitWith(a3_status) ==
  /\ agents = [a \in AgentIds |-> IF a = "a3" THEN NewAgent(a3_status) ELSE NewAgent("active")]
  /\ listings = <<>>
  /\ transactions = <<>>
  /\ ratings = {}
  /\ resp = NoResp
  /\ reqs = <<>>
  /\ InitPlatform
  /\ call = NoCall

Init == InitWith("active")

(***************************************************************************)
(* Authentication (utils/auth.py), for a caller presenting its own key.    *)
(***************************************************************************)
AuthStatusOk(st) == st # "banned" /\ st # "suspended"

\* get_current_agent returns the agent and stamps its last_active_at
Authenticated(a) ==
  /\ AuthStatusOk(agents[a].status)
  /\ last_active_at' = [last_active_at EXCEPT ![a] = now]

\* get_current_agent raises 403 before any handler runs
auth_rejected(a) ==
  /\ ~AuthStatusOk(agents[a].status)
  /\ resp' = Response("auth", 403, "Agent account is " \o agents[a].status)
  /\ UNCHANGED <<agents, listings, transactions, ratings, reqs, last_active_at, registry, guardian, community, bootstrap, library>>

\* the X-API-Key header of a request: absent or empty, a key with another
\* prefix, a key that was never minted, or one of the keys minted so far
NoKey == [prefix |-> "", random |-> 0]
KeyInputs ==
  {NoKey, [prefix |-> "sk_", random |-> 1], create_api_key(0)}
    \cup {create_api_key(n) : n \in 1..MaxKeys}

get_current_agent_IgnoresStatus(api_key) ==
  IF api_key = NoKey
    THEN [ok |-> FALSE, code |-> 401, detail |-> "API key required", agent |-> "-"]
  ELSE IF api_key.prefix # API_KEY_PREFIX
    THEN [ok |-> FALSE, code |-> 401, detail |-> "Invalid API key format.", agent |-> "-"]
  ELSE LET key_hash == hash_api_key(api_key)
           found == {a \in DOMAIN agents : api_key_hash[a] = key_hash}
       IN IF found = {}
            THEN [ok |-> FALSE, code |-> 401, detail |-> "Invalid API key.", agent |-> "-"]
          ELSE [ok |-> TRUE, code |-> 200, detail |-> "-",
                agent |-> CHOOSE a \in found : TRUE]

get_current_agent_AsksGuardian(api_key) ==
  IF api_key = NoKey
    THEN [ok |-> FALSE, code |-> 401, detail |-> "API key required", agent |-> "-"]
  ELSE IF api_key.prefix # API_KEY_PREFIX
    THEN [ok |-> FALSE, code |-> 401, detail |-> "Invalid API key format.", agent |-> "-"]
  ELSE LET key_hash == hash_api_key(api_key)
           found == {a \in DOMAIN agents : api_key_hash[a] = key_hash}
       IN IF found = {}
            THEN [ok |-> FALSE, code |-> 401, detail |-> "Invalid API key.", agent |-> "-"]
          ELSE LET agent == CHOOSE a \in found : TRUE
               IN IF agents[agent].status = "banned"
                    THEN [ok |-> FALSE, code |-> 403,
                          detail |-> "Agent account is banned.", agent |-> "-"]
                  ELSE IF \/ agents[agent].status = "suspended"
                          \/ \E i \in DOMAIN moderation_logs :
                               /\ moderation_logs[i].action = "agent_suspended"
                               /\ moderation_logs[i].agent_id = agent
                    THEN [ok |-> FALSE, code |-> 403,
                          detail |-> "Agent account is suspended.", agent |-> "-"]
                  ELSE [ok |-> TRUE, code |-> 200, detail |-> "-", agent |-> agent]

\* get_current_agent up to its last check: the agent it returns, or the
\* HTTPException it raises.  Agent.api_key_hash is unique, so the select
\* finds at most one agent.
get_current_agent(api_key) ==
  IF api_key = NoKey
    THEN [ok |-> FALSE, code |-> 401, detail |-> "API key required", agent |-> "-"]
  ELSE IF api_key.prefix # API_KEY_PREFIX
    THEN [ok |-> FALSE, code |-> 401, detail |-> "Invalid API key format.", agent |-> "-"]
  ELSE LET key_hash == hash_api_key(api_key)
           found == {a \in DOMAIN agents : api_key_hash[a] = key_hash}
       IN IF found = {}
            THEN [ok |-> FALSE, code |-> 401, detail |-> "Invalid API key.", agent |-> "-"]
          ELSE LET agent == CHOOSE a \in found : TRUE
               IN IF agents[agent].status = "banned"
                    THEN [ok |-> FALSE, code |-> 403,
                          detail |-> "Agent account is banned.", agent |-> "-"]
                  ELSE IF agents[agent].status = "suspended"
                    THEN [ok |-> FALSE, code |-> 403,
                          detail |-> "Agent account is suspended.", agent |-> "-"]
                  ELSE [ok |-> TRUE, code |-> 200, detail |-> "-", agent |-> agent]

\* a guarded request whose key get_current_agent refuses: no handler runs
unauthenticated(api_key) ==
  /\ ~get_current_agent(api_key).ok
  /\ resp' = Response("auth", get_current_agent(api_key).code,
                      get_current_agent(api_key).detail)
  /\ UNCHANGED <<agents, listings, transactions, ratings, reqs, last_active_at,
                 registry, guardian, community, bootstrap, library>>

\* the request carries the key that get_current_agent resolves to agent a
WithKey(api_key, a) ==
  get_current_agent(api_key).ok /\ get_current_agent(api_key).agent = a

\* GET /agents/me: reads the caller's row
get_current_agent_info(a) ==
  /\ Authenticated(a)
  /\ resp' = Response("me", 200, a)
  /\ UNCHANGED <<agents, listings, transactions, ratings, reqs, registry, guardian, community, bootstrap, library>>

Rekeyed_Unsaved(hashes, a, n) == hashes

\* the key column after regenerate_api_key stores the hash of the n-th key
Rekeyed(hashes, a, n) == [hashes EXCEPT ![a] = hash_api_key(create_api_key(n))]

\* POST /agents/me/regenerate-key
regenerate_api_key(a) ==
  /\ Authenticated(a)
  /\ n_keys < MaxKeys
  /\ api_key_hash' = Rekeyed(api_key_hash, a, n_keys + 1)
  /\ n_keys' = n_keys + 1
  /\ resp' = Response("regenerate", 200, a)
  /\ UNCHANGED <<agents, listings, transactions, ratings, reqs, now, email,
                 active_challenges, n_challenges, guardian, community, bootstrap, library>>

\* a handler that raises HTTPException before it writes anything
Raise(r) ==
  /\ resp' = r
  /\ UNCHANGED <<agents, listings, transactions, ratings, reqs, registry, guardian, community, bootstrap, library>>

(***************************************************************************)
(* Registration (utils/agent_verification.py, routers/agents.py).  Times   *)
(* are in milliseconds.  An answer is its text and whether it is padded    *)
(* with blanks; an email is None or the sequence holding the address.      *)
(***************************************************************************)
\* timedelta(minutes=5)
CHALLENGE_LIFETIME_MS == 300000
MAX_RESPONSE_TIME_MS == 30000

ExpectedAnswers == {[text |-> "42", padded |-> FALSE]}
AnswerInputs == ExpectedAnswers \cup {[text |-> "42", padded |-> TRUE],
                                      [text |-> "17", padded |-> FALSE]}
EmailInputs == {None, <<"">>, <<"e1@bots.io">>}
\* the time register_agent takes from its first line to the clock read of
\* verify_registration
ElapsedInputs == {0, 40000}
\* the time between two requests
Delays == {40000, 280000}

\* str.strip
strip(answer) == answer.text

\* generate_verification_challenge: challenge_id is a digest of the
\* challenge, the answer and time.time(); the n-th challenge has the id n
generate_verification_challenge(n, answer) ==
  [challenge_id |-> n, expected_answer |-> answer, created_at |-> now,
   expires_at |-> now + CHALLENGE_LIFETIME_MS,
   max_response_time_ms |-> MAX_RESPONSE_TIME_MS]

Without(challenges, dropped) ==
  [c \in DOMAIN challenges \ dropped |-> challenges[c]]

\* store_challenge: the challenges after it
store_challenge(challenges, challenge_id, challenge_data) ==
  LET stored == (challenge_id :> challenge_data) @@ challenges
      expired == {c \in DOMAIN stored : stored[c].expires_at < now}
  IN Without(stored, expired)

\* create_registration_challenge, behind GET /agents/challenge
get_registration_challenge ==
  /\ n_challenges < MaxChallenges
  /\ \E answer \in ExpectedAnswers :
       LET challenge == generate_verification_challenge(n_challenges + 1, answer)
       IN active_challenges' =
            store_challenge(active_challenges, challenge.challenge_id, challenge)
  /\ n_challenges' = n_challenges + 1
  /\ resp' = Response("challenge", 200, "issued")
  /\ UNCHANGED <<agents, listings, transactions, ratings, reqs, last_active_at,
                 now, api_key_hash, email, n_keys, guardian, community, bootstrap, library>>

verify_challenge_response_Reusable(challenge_id, answer, response_time_ms, utcnow) ==
  IF challenge_id \notin DOMAIN active_challenges
    THEN [is_valid |-> FALSE, reason |-> "challenge_not_found_or_expired",
          active_challenges |-> active_challenges]
  ELSE LET challenge == active_challenges[challenge_id]
       IN IF challenge.expires_at < utcnow
            THEN [is_valid |-> FALSE, reason |-> "challenge_expired",
                  active_challenges |-> Without(active_challenges, {challenge_id})]
          ELSE IF response_time_ms > challenge.max_response_time_ms
            THEN [is_valid |-> FALSE, reason |-> "response_too_slow",
                  active_challenges |-> active_challenges]
          ELSE IF strip(answer) # strip(challenge.expected_answer)
            THEN [is_valid |-> FALSE, reason |-> "incorrect_answer",
                  active_challenges |-> active_challenges]
          ELSE [is_valid |-> TRUE,
                reason |-> IF response_time_ms < 1000 THEN "verified_fast_response"
                           ELSE "verified",
                active_challenges |-> active_challenges]

verify_challenge_response_OneAttempt(challenge_id, answer, response_time_ms, utcnow) ==
  LET verdict == verify_challenge_response_Reusable(challenge_id, answer,
                                                    response_time_ms, utcnow)
  IN [verdict EXCEPT !.active_challenges =
        IF verdict.reason = "challenge_not_found_or_expired" THEN @
        ELSE Without(@, {challenge_id})]

\* verify_challenge_response called at the time utcnow: (is_valid, reason)
\* and the challenges after it
verify_challenge_response(challenge_id, answer, response_time_ms, utcnow) ==
  IF challenge_id \notin DOMAIN active_challenges
    THEN [is_valid |-> FALSE, reason |-> "challenge_not_found_or_expired",
          active_challenges |-> active_challenges]
  ELSE LET challenge == active_challenges[challenge_id]
       IN IF challenge.expires_at < utcnow
            THEN [is_valid |-> FALSE, reason |-> "challenge_expired",
                  active_challenges |-> Without(active_challenges, {challenge_id})]
          ELSE IF response_time_ms > challenge.max_response_time_ms
            THEN [is_valid |-> FALSE, reason |-> "response_too_slow",
                  active_challenges |-> active_challenges]
          ELSE IF strip(answer) # strip(challenge.expected_answer)
            THEN [is_valid |-> FALSE, reason |-> "incorrect_answer",
                  active_challenges |-> active_challenges]
          ELSE [is_valid |-> TRUE,
                reason |-> IF response_time_ms < 1000 THEN "verified_fast_response"
                           ELSE "verified",
                active_challenges |-> Without(active_challenges, {challenge_id})]

\* verify_registration called at the time utcnow
verify_registration(challenge_id, answer, start_time, utcnow) ==
  verify_challenge_response(challenge_id, answer, utcnow - start_time, utcnow)

\* the status code register_agent raises for a failed verification
VerificationStatus(reason) ==
  IF reason = "challenge_not_found_or_expired" THEN 400
  ELSE IF reason = "incorrect_answer" THEN 403
  ELSE IF reason = "response_too_slow" THEN 403
  ELSE 400

email_registered_Never(registration_email) == FALSE

\* the email check of register_agent: the email is neither None nor empty
\* and an agent has it
email_registered(registration_email) ==
  /\ registration_email \notin {None, <<"">>}
  /\ \E a \in DOMAIN agents : email[a] = registration_email

\* Agent.email is unique: the commit fails when an agent has the email
email_unique(registration_email) ==
  registration_email = None \/ \A a \in DOMAIN agents : email[a] # registration_email

\* generate_id: a new nanoid; the n-th agent has the id "a" n
generate_id == "a" \o ToString(Cardinality(DOMAIN agents) + 1)

register_agent_EmailFirst(challenge_id, challenge_answer, registration_email, elapsed) ==
  LET request_start == now
      verdict == verify_registration(challenge_id, challenge_answer, request_start,
                                     now + elapsed)
  IN /\ now + elapsed <= MaxMinutes * 60000
     /\ now' = now + elapsed
     /\ IF email_registered(registration_email)
          THEN /\ resp' = Response("register", 400, "Email already registered")
               /\ UNCHANGED <<agents, api_key_hash, email, n_keys, last_active_at,
                              active_challenges>>
        ELSE IF ~verdict.is_valid
          THEN /\ resp' = Response("register", VerificationStatus(verdict.reason),
                                   verdict.reason)
               /\ active_challenges' = verdict.active_challenges
               /\ UNCHANGED <<agents, api_key_hash, email, n_keys, last_active_at>>
        ELSE IF ~email_unique(registration_email)
          THEN /\ resp' = Response("register", 500, "IntegrityError")
               /\ active_challenges' = verdict.active_challenges
               /\ UNCHANGED <<agents, api_key_hash, email, n_keys, last_active_at>>
        ELSE
          /\ active_challenges' = verdict.active_challenges
          /\ agents' = agents @@ (generate_id :> NewAgent("active"))
          /\ api_key_hash' =
               api_key_hash @@ (generate_id :> hash_api_key(create_api_key(n_keys + 1)))
          /\ n_keys' = n_keys + 1
          /\ email' = email @@ (generate_id :> registration_email)
          /\ last_active_at' = last_active_at @@ (generate_id :> NoTime)
          /\ resp' = Response("register", 201, verdict.reason)
     /\ UNCHANGED <<listings, transactions, ratings, reqs, n_challenges, guardian,
                    community, bootstrap, library>>

\* POST /agents/register.  validate_agent_metadata accepts every client and
\* writes nothing.
register_agent(challenge_id, challenge_answer, registration_email, elapsed) ==
  LET request_start == now
      verdict == verify_registration(challenge_id, challenge_answer, request_start,
                                     now + elapsed)
  IN /\ now + elapsed <= MaxMinutes * 60000
     /\ now' = now + elapsed
     /\ active_challenges' = verdict.active_challenges
     /\ IF ~verdict.is_valid
          THEN /\ resp' = Response("register", VerificationStatus(verdict.reason),
                                   verdict.reason)
               /\ UNCHANGED <<agents, api_key_hash, email, n_keys, last_active_at>>
        ELSE IF email_registered(registration_email)
          THEN /\ resp' = Response("register", 400, "Email already registered")
               /\ UNCHANGED <<agents, api_key_hash, email, n_keys, last_active_at>>
        ELSE IF ~email_unique(registration_email)
          THEN /\ resp' = Response("register", 500, "IntegrityError")
               /\ UNCHANGED <<agents, api_key_hash, email, n_keys, last_active_at>>
        ELSE
          /\ agents' = agents @@ (generate_id :> NewAgent("active"))
          /\ api_key_hash' =
               api_key_hash @@ (generate_id :> hash_api_key(create_api_key(n_keys + 1)))
          /\ n_keys' = n_keys + 1
          /\ email' = email @@ (generate_id :> registration_email)
          /\ last_active_at' = last_active_at @@ (generate_id :> NoTime)
          /\ resp' = Response("register", 201, verdict.reason)
     /\ UNCHANGED <<listings, transactions, ratings, reqs, n_challenges, guardian, community, bootstrap, library>>

\* time passes between two requests
tick(d) ==
  /\ now + d <= MaxMinutes * 60000
  /\ now' = now + d
  /\ UNCHANGED <<agents, listings, transactions, ratings, reqs, resp, last_active_at,
                 api_key_hash, email, n_keys, active_challenges, n_challenges, guardian, community, bootstrap, library>>

(***************************************************************************)
(* Guardian (services/guardian_moderator.py, utils/content_moderation.py). *)
(* The text of a listing (title, description and tags joined, in lower     *)
(* case) is the set of the phrases it is made of.                          *)
(***************************************************************************)
Phrases == {"report", "unlock", "free", "bypass security", "hacking", "virus",
            "malware", "exploit"}

CleanText == {"report"}

\* the words of the keyword lists found in a phrase by Python's "in"
Substrings(ph) ==
  CASE ph = "report" -> {}
    [] ph = "bypass security" -> {"bypass"}
    [] ph = "hacking" -> {"hack", "hacking"}
    [] OTHER -> {ph}

Occurring(text) == UNION {Substrings(ph) : ph \in text}

PROHIBITED_KEYWORDS ==
  {"weapon", "weapons", "explosive", "bomb", "poison", "toxic",
   "malware", "virus", "ransomware", "spyware", "keylogger",
   "hack", "hacking", "exploit", "zero-day", "0day",
   "ddos", "dos attack", "botnet",
   "phishing", "scam", "fraud",
   "stolen", "leaked", "breach", "dump",
   "illegal", "illicit",
   "drug", "drugs", "narcotic",
   "counterfeit", "fake id", "forged",
   "jailbreak", "jailbreaking",
   "prompt injection", "prompt attack",
   "model extraction", "model stealing",
   "training data poison", "data poisoning",
   "adversarial attack", "adversarial example",
   "backdoor attack", "trojan model",
   "deepfake", "fake news generator",
   "misinformation", "disinformation",
   "impersonation tool",
   "doxxing", "dox",
   "stalking", "stalkerware",
   "spy on", "surveillance",
   "personal data", "pii dump"}

\* PROHIBITED_PATTERNS: of the phrases only "bypass security" matches one,
\* bypass\s+(security|safety|filter|guardrail)
PROHIBITED_PATTERNS == {"bypass security"}

\* check_content_safety: (is_safe, reason)
check_content_safety(text) ==
  IF Occurring(text) \cap PROHIBITED_KEYWORDS # {}
    THEN [is_safe |-> FALSE, reason |-> "Content contains prohibited term"]
  ELSE IF text \cap PROHIBITED_PATTERNS # {}
    THEN [is_safe |-> FALSE, reason |-> "Content matches prohibited pattern"]
  ELSE [is_safe |-> TRUE, reason |-> "Content approved"]

high_severity == {"malware", "weapon", "exploit", "ransomware", "ddos", "botnet"}
medium_severity == {"hack", "crack", "stolen", "leaked", "jailbreak"}
low_severity == {"bypass", "unlock", "free"}

Min(x, y) == IF x < y THEN x ELSE y
Max(x, y) == IF x > y THEN x ELSE y

\* GuardianModerator._calculate_severity
_calculate_severity(text) ==
  Min(10, 4 * Cardinality(high_severity \cap Occurring(text))
          + 2 * Cardinality(medium_severity \cap Occurring(text))
          + Cardinality(low_severity \cap Occurring(text)))

\* AgentTrustScore of an agent the Guardian meets for the first time; the
\* score is kept in hundredths
NewTrust == [score |-> 80, warnings |-> 0, violations |-> 0,
             last_violation |-> NoTime, is_trusted |-> TRUE]

\* GuardianModerator._get_agent_trust: the scores after get-or-create
_get_agent_trust(scores, agent_id) ==
  IF agent_id \in DOMAIN scores THEN scores ELSE scores @@ (agent_id :> NewTrust)

_record_warning_Lenient(scores, agent_id) ==
  LET had == _get_agent_trust(scores, agent_id)
  IN [had EXCEPT ![agent_id] = [@ EXCEPT !.warnings = @ + 1, !.score = Max(0, @ - 5)]]

\* GuardianModerator._record_warning: the scores after it
_record_warning(scores, agent_id) ==
  LET had == _get_agent_trust(scores, agent_id)
      warnings == had[agent_id].warnings + 1
  IN [had EXCEPT ![agent_id] =
        [@ EXCEPT !.warnings = warnings,
                  !.score = Max(0, @ - 5),
                  !.is_trusted = IF warnings >= 3 THEN FALSE ELSE @]]

_record_violation_Trusting(scores, agent_id) ==
  LET had == _get_agent_trust(scores, agent_id)
  IN [had EXCEPT ![agent_id] = [@ EXCEPT !.violations = @ + 1]]

\* GuardianModerator._record_violation: the scores after it
_record_violation(scores, agent_id) ==
  LET had == _get_agent_trust(scores, agent_id)
  IN [had EXCEPT ![agent_id] =
        [@ EXCEPT !.violations = @ + 1,
                  !.last_violation = now,
                  !.score = Max(0, @ - 20),
                  !.is_trusted = FALSE]]

\* the day of a clock reading, as strftime('%Y%m%d') prints it
MS_PER_DAY == 86400000
strftime(utcnow) == utcnow \div MS_PER_DAY

_generate_log_id_Restarting(counter) == [prefix |-> "MOD", day |-> strftime(now), counter |-> 1]

\* GuardianModerator._generate_log_id after counter ids were generated: the
\* id "MOD-<day>-<counter + 1>"; the counter is printed with at least six
\* digits
_generate_log_id(counter) == [prefix |-> "MOD", day |-> strftime(now), counter |-> counter + 1]

ModerationLog(id, action, target_type, target_id, agent_id, reason, severity, trust_score) ==
  [id |-> id, action |-> action, target_type |-> target_type, target_id |-> target_id,
   agent_id |-> agent_id, reason |-> reason, severity |-> severity,
   trust_score |-> trust_score]

\* GuardianModerator._suspend_agent: the logs after it, with the id that
\* follows counter (it writes nothing else)
_suspend_agent(logs, counter, agent_id) ==
  Append(logs, ModerationLog(_generate_log_id(counter), "agent_suspended", "agent",
                             agent_id, agent_id,
                             "Repeated violations of marketplace rules", 0, 0))

\* GuardianModerator._flag_content: the queue after it
_flag_content(flagged, content_type, content_id, agent_id) ==
  LET key == content_type \o ":" \o content_id
      entry == [type |-> content_type, id |-> content_id, agent_id |-> agent_id,
                flagged_at |-> now, status |-> "pending_review"]
  IN IF key \in DOMAIN flagged THEN [flagged EXCEPT ![key] = entry]
     ELSE flagged @@ (key :> entry)

ReviewAction_IgnoresTrust(is_safe, severity, is_trusted) ==
  IF is_safe /\ severity = 0 THEN "approved"
  ELSE IF severity <= 2 THEN "warning"
  ELSE IF severity <= 4 THEN "flagged"
  ELSE "removed"

\* the decision of review_listing
ReviewAction(is_safe, severity, is_trusted) ==
  IF is_safe /\ severity = 0 THEN "approved"
  ELSE IF severity <= 2 /\ is_trusted THEN "warning"
  ELSE IF severity <= 4 THEN "flagged"
  ELSE "removed"

Approved_OrWarning(action) == action \in {"approved", "warning"}

\* the "approved" entry of the dict review_listing returns
Approved(action) == action = "approved"

\* GuardianModerator.review_listing: what it returns and the Guardian's
\* fields after it
review_listing(listing_id, text, agent_id) ==
  LET safety == check_content_safety(text)
      severity == _calculate_severity(text)
      met == _get_agent_trust(agent_trust_scores, agent_id)
      action == ReviewAction(safety.is_safe, severity, met[agent_id].is_trusted)
      scores == IF action = "warning" THEN _record_warning(met, agent_id)
                ELSE IF action = "removed" THEN _record_violation(met, agent_id)
                ELSE met
      suspends == action = "removed" /\ scores[agent_id].violations >= 3
      suspended == IF suspends
                     THEN _suspend_agent(moderation_logs, _log_counter, agent_id)
                   ELSE moderation_logs
      counter == IF suspends THEN _log_counter + 1 ELSE _log_counter
  IN [approved |-> Approved(action),
      action |-> action,
      severity |-> severity,
      agent_trust_scores |-> scores,
      flagged_content |-> IF action = "flagged"
                            THEN _flag_content(flagged_content, "listing", listing_id, agent_id)
                          ELSE flagged_content,
      moderation_logs |-> Append(suspended,
                                 ModerationLog(_generate_log_id(counter), action,
                                               "listing", listing_id, agent_id,
                                               safety.reason, severity,
                                               scores[agent_id].score)),
      _log_counter |-> counter + 1]

(***************************************************************************)
(* Categories (routers/categories.py).                                     *)
(***************************************************************************)
\* check_category_safety: (is_safe, reason), from the keywords that occur
\* in the lower case of "<name> <description>"
check_category_safety(name, description) ==
  LET all_text == lower(name \o <<" ">> \o description)
      found == UNION {Substrings(all_text[i]) : i \in DOMAIN all_text}
  IN IF found \cap PROHIBITED_KEYWORDS # {}
       THEN [is_safe |-> FALSE, reason |-> "Category contains prohibited term"]
     ELSE [is_safe |-> TRUE, reason |-> "Category approved"]

\* GuardianModerator.review_category: what it returns and the Guardian's
\* log after it
review_category(category_name, description, agent_id) ==
  LET safety == check_category_safety(category_name, description)
      action == IF safety.is_safe THEN "approved" ELSE "removed"
  IN [approved |-> safety.is_safe,
      action |-> action,
      moderation_logs |-> Append(moderation_logs,
                                 ModerationLog(_generate_log_id(_log_counter), action,
                                               "category", category_name, agent_id,
                                               safety.reason, 0, 0)),
      _log_counter |-> _log_counter + 1]

\* POST /categories: the Guardian review, the slug, the parent, the insert;
\* parent_id is None or the one-element sequence of an id
create_category(a, name, description, parent_id) ==
  /\ Authenticated(a)
  /\ LET guardian_review == review_category(name, description, a)
         slug == slugify(name)
     IN /\ moderation_logs' = guardian_review.moderation_logs
        /\ _log_counter' = guardian_review._log_counter
        /\ IF ~guardian_review.approved
             THEN /\ resp' = Response("create_category", 400, "Guardian Review")
                  /\ UNCHANGED categories
           ELSE IF slug \in Slugs(categories)
             THEN /\ resp' = Response("create_category", 400,
                                      "Category with this name already exists")
                  /\ UNCHANGED categories
           ELSE IF parent_id # None /\ \A i \in DOMAIN categories : <<categories[i].id>> # parent_id
             THEN /\ resp' = Response("create_category", 400, "Parent category not found")
                  /\ UNCHANGED categories
           ELSE
             /\ Len(categories) < Len(default_categories) + MaxCategories
             /\ categories' = Append(categories, Category(categories, name, parent_id))
             /\ resp' = Response("create_category", 201, "created")
  /\ UNCHANGED <<agents, listings, transactions, ratings, reqs, registry,
                 agent_trust_scores, flagged_content, watchlist, n_items, messages,
                 view_count, bootstrap, library>>

\* lifespan, up to its yield: a new process starts on the database of the
\* last one.  The objects of the modules are new (no challenge, a new
\* Guardian, a new limiter, no request in flight); init_db creates no table
\* that exists; the default categories are seeded.
lifespan ==
  /\ categories' = seed_default_categories(categories)
  /\ active_challenges' = <<>>
  /\ agent_trust_scores' = <<>>
  /\ flagged_content' = <<>>
  /\ moderation_logs' = <<>>
  /\ _log_counter' = 0
  /\ storage' = <<>>
  /\ reqs' = <<>>
  /\ UNCHANGED <<agents, listings, transactions, ratings, resp, last_active_at, now,
                 api_key_hash, email, n_keys, n_challenges, watchlist, n_items, messages,
                 view_count, served, library>>

(***************************************************************************)
(* Listings (routers/listings.py).                                         *)
(***************************************************************************)
NoListing == [seller_id |-> "-", price |-> 0, quantity |-> 0, status |-> "draft"]

ListingRow(rows, l) == IF l \in DOMAIN rows THEN rows[l] ELSE NoListing

\* POST /listings with no category: the Guardian review, then the price
\* limits, then the insert
create_listing(a, text, price, qty) ==
  /\ Authenticated(a)
  /\ LET guardian_review == review_listing("pending", text, a)
     IN /\ agent_trust_scores' = guardian_review.agent_trust_scores
        /\ flagged_content' = guardian_review.flagged_content
        /\ moderation_logs' = guardian_review.moderation_logs
        /\ _log_counter' = guardian_review._log_counter
        /\ IF ~guardian_review.approved
             THEN /\ resp' = Response("create_listing", 400, "Guardian Review")
                  /\ UNCHANGED <<agents, listings, transactions, ratings, reqs, registry, community, bootstrap, library>>
           ELSE IF price < MIN_LISTING_PRICE
             THEN /\ resp' = Response("create_listing", 400, "Minimum listing price")
                  /\ UNCHANGED <<agents, listings, transactions, ratings, reqs, registry, community, bootstrap, library>>
           ELSE IF price > MAX_LISTING_PRICE
             THEN /\ resp' = Response("create_listing", 400, "Maximum listing price")
                  /\ UNCHANGED <<agents, listings, transactions, ratings, reqs, registry, community, bootstrap, library>>
           ELSE
             /\ Len(listings) + Len(transactions) < MaxRows
             /\ listings' = Append(listings, [seller_id |-> a, price |-> price,
                                              quantity |-> qty, status |-> "active"])
             /\ resp' = Response("create_listing", 201, "created")
             /\ UNCHANGED <<agents, transactions, ratings, reqs, registry, community, bootstrap, library>>

\* ListingUpdate bodies: each field is unset ({}) or set to one value
Unset == {}
NoUpdate == [price |-> Unset, quantity |-> Unset, status |-> Unset]

\* the request bodies tried: one field set at a time
PatchStatuses == {"active", "sold"}
ListingUpdates ==
  {[NoUpdate EXCEPT !.price = {p}] : p \in Prices}
    \cup {[NoUpdate EXCEPT !.quantity = {n}] : n \in 0..MaxQty}
    \cup {[NoUpdate EXCEPT !.status = {st}] : st \in PatchStatuses}

Field(old, upd) == IF upd = Unset THEN old ELSE CHOOSE v \in upd : TRUE

\* the setattr loop of update_listing
ApplyUpdate(row, upd) ==
  [row EXCEPT !.price = Field(@, upd.price),
              !.quantity = Field(@, upd.quantity),
              !.status = Field(@, upd.status)]

\* PATCH /listings/{id}
update_listing(a, l, upd) ==
  /\ Authenticated(a)
  /\ IF l \notin DOMAIN listings
       THEN Raise(Response("update_listing", 404, "Listing not found"))
     ELSE IF listings[l].seller_id # a
       THEN Raise(Response("update_listing", 403, "Not authorized to update this listing"))
     ELSE IF listings[l].status = "sold"
       THEN Raise(Response("update_listing", 400, "Cannot update a sold listing"))
     ELSE
       /\ listings' = [listings EXCEPT ![l] = ApplyUpdate(@, upd)]
       /\ resp' = Response("update_listing", 200, "ok")
       /\ UNCHANGED <<agents, transactions, ratings, reqs, registry, guardian, community, bootstrap, library>>

\* DELETE /listings/{id}
delete_listing(a, l) ==
  /\ Authenticated(a)
  /\ IF l \notin DOMAIN listings
       THEN Raise(Response("delete_listing", 404, "Listing not found"))
     ELSE IF listings[l].seller_id # a
       THEN Raise(Response("delete_listing", 403, "Not authorized to delete this listing"))
     ELSE IF listings[l].status = "sold"
       THEN Raise(Response("delete_listing", 400, "Cannot delete a sold listing"))
     ELSE
       /\ listings' = [listings EXCEPT ![l].status = "cancelled"]
       /\ resp' = Response("delete_listing", 200, "Listing cancelled")
       /\ UNCHANGED <<agents, transactions, ratings, reqs, registry, guardian, community, bootstrap, library>>

\* get_optional_agent: the agent whose key hash matches, whatever its
\* status, or "-" for None
get_optional_agent(api_key) ==
  IF api_key = NoKey \/ api_key.prefix # API_KEY_PREFIX THEN "-"
  ELSE LET found == {a \in DOMAIN agents : api_key_hash[a] = hash_api_key(api_key)}
       IN IF found = {} THEN "-" ELSE CHOOSE a \in found : TRUE

\* Listing.view_count of listing l: the column starts at 0, and view_count
\* holds the listings that were counted at least once
ViewCount(counts, l) == IF l \in DOMAIN counts THEN counts[l] ELSE 0

\* the caller is anonymous or is not the seller
Stranger(current_agent, row) == current_agent = "-" \/ current_agent # row.seller_id

Hidden_Never(current_agent, row) == FALSE

\* a listing that is not active is shown to its seller only
Hidden(current_agent, row) == row.status # "active" /\ Stranger(current_agent, row)

\* GET /listings/{id}
get_listing(api_key, l) ==
  LET current_agent == get_optional_agent(api_key)
      row == ListingRow(listings, l)
  IN /\ last_active_at' = IF current_agent = "-" THEN last_active_at
                          ELSE [last_active_at EXCEPT ![current_agent] = now]
     /\ IF l \notin DOMAIN listings
          THEN /\ resp' = Response("get_listing", 404, "Listing not found")
               /\ UNCHANGED view_count
        ELSE IF Hidden(current_agent, row)
          THEN /\ resp' = Response("get_listing", 404, "Listing not found")
               /\ UNCHANGED view_count
        ELSE IF Stranger(current_agent, row)
          THEN /\ ViewCount(view_count, l) < MaxViews
               /\ view_count' = IF l \in DOMAIN view_count
                                  THEN [view_count EXCEPT ![l] = @ + 1]
                                ELSE view_count @@ (l :> 1)
               /\ resp' = Response("get_listing", 200, "counted")
        ELSE /\ resp' = Response("get_listing", 200, "seller")
             /\ UNCHANGED view_count
     /\ UNCHANGED <<agents, listings, transactions, ratings, reqs, registry, guardian,
                    categories, watchlist, n_items, messages, bootstrap, library>>

\* the rows of the watchlist about agent a and listing l
Watching_Blind(items, a, l) == {}

Watching(items, a, l) ==
  {i \in DOMAIN items : items[i].agent_id = a /\ items[i].listing_id = l}

\* POST /listings/{id}/watch; the n-th item created has the id "w<n>"
add_to_watchlist(a, l, notify_price_drop, notify_ending_soon) ==
  /\ Authenticated(a)
  /\ IF l \notin DOMAIN listings \/ ListingRow(listings, l).status # "active"
       THEN Raise(Response("watch", 404, "Listing not found"))
     ELSE IF listings[l].seller_id = a
       THEN Raise(Response("watch", 400, "Cannot watch your own listing"))
     ELSE IF Watching(watchlist, a, l) # {}
       THEN Raise(Response("watch", 400, "Already watching this listing"))
     ELSE
       /\ n_items < MaxItems
       /\ watchlist' = Append(watchlist,
                              [id |-> "w" \o ToString(n_items + 1), agent_id |-> a,
                               listing_id |-> l,
                               notify_price_drop |-> notify_price_drop,
                               notify_ending_soon |-> notify_ending_soon])
       /\ n_items' = n_items + 1
       /\ resp' = Response("watch", 200, "watching")
       /\ UNCHANGED <<agents, listings, transactions, ratings, reqs, registry, guardian,
                      categories, messages, view_count, bootstrap, library>>

\* DELETE /listings/{id}/watch
remove_from_watchlist(a, l) ==
  /\ Authenticated(a)
  /\ IF Watching(watchlist, a, l) = {}
       THEN Raise(Response("unwatch", 404, "Not watching this listing"))
     ELSE
       /\ watchlist' = LET item == CHOOSE i \in Watching(watchlist, a, l) : TRUE
                       IN SubSeq(watchlist, 1, item - 1)
                            \o SubSeq(watchlist, item + 1, Len(watchlist))
       /\ resp' = Response("unwatch", 200, "Removed from watchlist")
       /\ UNCHANGED <<agents, listings, transactions, ratings, reqs, registry, guardian,
                      categories, n_items, messages, view_count, bootstrap, library>>

(***************************************************************************)
(* Messages (routers/messages.py).  The n-th message sent has the id n;    *)
(* an optional listing id is None or the one-element sequence of the id.   *)
(***************************************************************************)
Message(sender_id, receiver_id, listing_id) ==
  [sender_id |-> sender_id, receiver_id |-> receiver_id, listing_id |-> listing_id,
   is_read |-> FALSE, read_at |-> NoTime, created_at |-> now]

\* POST /messages
send_message(a, receiver_id, listing_id) ==
  /\ Authenticated(a)
  /\ IF receiver_id \notin DOMAIN agents
       THEN Raise(Response("send_message", 404, "Receiver not found"))
     ELSE IF agents[receiver_id].status # "active"
       THEN Raise(Response("send_message", 400, "Cannot send message to inactive agent"))
     ELSE IF receiver_id = a
       THEN Raise(Response("send_message", 400, "Cannot send message to yourself"))
     ELSE IF listing_id # None /\ \A l \in DOMAIN listings : <<l>> # listing_id
       THEN Raise(Response("send_message", 404, "Listing not found"))
     ELSE
       /\ Len(messages) < MaxMessages
       /\ messages' = Append(messages, Message(a, receiver_id, listing_id))
       /\ resp' = Response("send_message", 201, "sent")
       /\ UNCHANGED <<agents, listings, transactions, ratings, reqs, registry, guardian,
                      categories, watchlist, n_items, view_count, bootstrap, library>>

MarkRead_Restamps(row, utcnow) == [row EXCEPT !.is_read = TRUE, !.read_at = utcnow]

\* "if not message.is_read: is_read = True; read_at = utcnow()"
MarkRead(row, utcnow) ==
  IF row.is_read THEN row ELSE [row EXCEPT !.is_read = TRUE, !.read_at = utcnow]

\* the messages between the caller a and agent_id, of the listing when a
\* listing is given
Thread(rows, a, agent_id, listing_id) ==
  {m \in DOMAIN rows :
     /\ \/ rows[m].sender_id = a /\ rows[m].receiver_id = agent_id
        \/ rows[m].sender_id = agent_id /\ rows[m].receiver_id = a
     /\ listing_id = None \/ rows[m].listing_id = listing_id}

\* ORDER BY created_at DESC: the orders the database can return, any order
\* among the messages of one instant
Orders(rows, thread) ==
  {o \in [1..Cardinality(thread) -> thread] :
     \A i, j \in 1..Cardinality(thread) :
       i < j => o[i] # o[j] /\ rows[o[i]].created_at >= rows[o[j]].created_at}

\* OFFSET (page - 1) * page_size LIMIT page_size
Page(o, page, page_size) ==
  {o[i] : i \in {k \in DOMAIN o : (page - 1) * page_size < k /\ k <= page * page_size}}

\* GET /messages/conversation/{agent_id}
get_conversation(a, agent_id, listing_id, page, page_size) ==
  /\ Authenticated(a)
  /\ IF agent_id \notin DOMAIN agents
       THEN Raise(Response("conversation", 404, "Agent not found"))
     ELSE
       /\ \E o \in Orders(messages, Thread(messages, a, agent_id, listing_id)) :
            messages' = [m \in DOMAIN messages |->
                           IF m \in Page(o, page, page_size) /\ messages[m].receiver_id = a
                             THEN MarkRead(messages[m], now)
                           ELSE messages[m]]
       /\ resp' = Response("conversation", 200, "ok")
       /\ UNCHANGED <<agents, listings, transactions, ratings, reqs, registry, guardian,
                      categories, watchlist, n_items, view_count, bootstrap, library>>

\* PATCH /messages/{id}/read
mark_message_read(a, message_id) ==
  /\ Authenticated(a)
  /\ IF message_id \notin DOMAIN messages
       THEN Raise(Response("mark_read", 404, "Message not found"))
     ELSE IF messages[message_id].receiver_id # a
       THEN Raise(Response("mark_read", 403,
                           "Can only mark your own received messages as read"))
     ELSE
       /\ messages' = [messages EXCEPT ![message_id] = MarkRead(@, now)]
       /\ resp' = Response("mark_read", 200, "Message marked as read")
       /\ UNCHANGED <<agents, listings, transactions, ratings, reqs, registry, guardian,
                      categories, watchlist, n_items, view_count, bootstrap, library>>

(***************************************************************************)
(* The unit of work of one request: at commit the session writes, for each *)
(* row it holds, exactly the columns the handler changed.                  *)
(***************************************************************************)
Flush_Increments(stored, loaded, changed) ==
  [f \in DOMAIN stored |->
     IF changed[f] = loaded[f] THEN stored[f]
     ELSE IF f = "status" THEN changed[f]
     ELSE stored[f] + (changed[f] - loaded[f])]

Flush(stored, loaded, changed) ==
  [f \in DOMAIN stored |-> IF changed[f] # loaded[f] THEN changed[f] ELSE stored[f]]

(***************************************************************************)
(* Transactions (routers/transactions.py).                                 *)
(***************************************************************************)
purchase_check_NoCreditCheck(found, row, credits, a, q) ==
  IF ~found THEN [code |-> 404, detail |-> "Listing not found"]
  ELSE IF row.status # "active"
    THEN [code |-> 400, detail |-> "Listing is not available for purchase"]
  ELSE IF row.seller_id = a
    THEN [code |-> 400, detail |-> "Cannot purchase your own listing"]
  ELSE IF q > row.quantity
    THEN [code |-> 400, detail |-> "Requested quantity exceeds available"]
  ELSE [code |-> 201, detail |-> "created"]

\* the validation of create_purchase on the rows the request has read
purchase_check(found, row, credits, a, q) ==
  IF ~found THEN [code |-> 404, detail |-> "Listing not found"]
  ELSE IF row.status # "active"
    THEN [code |-> 400, detail |-> "Listing is not available for purchase"]
  ELSE IF row.seller_id = a
    THEN [code |-> 400, detail |-> "Cannot purchase your own listing"]
  ELSE IF q > row.quantity
    THEN [code |-> 400, detail |-> "Requested quantity exceeds available"]
  ELSE IF credits < row.price * q
    THEN [code |-> 400, detail |-> "Insufficient credits"]
  ELSE [code |-> 201, detail |-> "created"]

DebitBuyer_Uncounted(buyer, total_amount) ==
  [buyer EXCEPT !.credits = @ - total_amount]

\* the buyer row after the handler's assignments
DebitBuyer(buyer, total_amount) ==
  [buyer EXCEPT !.credits = @ - total_amount, !.total_purchases = @ + 1]

TakeStock_StaysActive(row, q) == [row EXCEPT !.quantity = @ - q]

\* the listing row after the handler's assignments
TakeStock(row, q) ==
  [row EXCEPT !.quantity = @ - q,
              !.status = IF row.quantity - q = 0 THEN "sold" ELSE @]

NewTransaction(l, row, a, q, total_amount, fee_net, notes) ==
  [listing_id |-> l, buyer_id |-> a, seller_id |-> row.seller_id,
   quantity |-> q, unit_price |-> row.price, total_amount |-> total_amount,
   fee_amount |-> fee_net[1], net_amount |-> fee_net[2], status |-> "pending",
   delivery_data |-> FALSE, buyer_notes |-> notes, seller_notes |-> None,
   completed_at |-> FALSE]

\* POST /transactions/buy
create_purchase(a, l, q, notes) ==
  /\ Authenticated(a)
  /\ LET row == ListingRow(listings, l)
         chk == purchase_check(l \in DOMAIN listings, row, agents[a].credits, a, q)
         total_amount == row.price * q
     IN IF chk.code # 201
          THEN Raise(Response("buy", chk.code, chk.detail))
        ELSE
          /\ Len(listings) + Len(transactions) < MaxRows
          /\ \E fee_net \in calculate_transaction_fee(total_amount, TRANSACTION_FEE_PERCENT) :
               transactions' = Append(transactions,
                                      NewTransaction(l, row, a, q, total_amount, fee_net, notes))
          /\ agents' = [agents EXCEPT ![a] = DebitBuyer(@, total_amount)]
          /\ listings' = [listings EXCEPT ![l] = TakeStock(row, q)]
          /\ resp' = Response("buy", 201, "created")
          /\ UNCHANGED <<ratings, reqs, registry, guardian, community, bootstrap, library>>

NoTransaction == [buyer_id |-> "-", seller_id |-> "-", status |-> "failed"]

deliver_check_AnyStatus(found, tx, a) ==
  IF ~found THEN [code |-> 404, detail |-> "Transaction not found"]
  ELSE IF tx.seller_id # a
    THEN [code |-> 403, detail |-> "Only the seller can deliver this transaction"]
  ELSE [code |-> 200, detail |-> "ok"]

deliver_check(found, tx, a) ==
  IF ~found THEN [code |-> 404, detail |-> "Transaction not found"]
  ELSE IF tx.seller_id # a
    THEN [code |-> 403, detail |-> "Only the seller can deliver this transaction"]
  ELSE IF tx.status # "pending"
    THEN [code |-> 400, detail |-> "Transaction cannot be delivered"]
  ELSE [code |-> 200, detail |-> "ok"]

\* the transaction row after deliver_transaction's assignments
Delivered(tx, notes) ==
  [tx EXCEPT !.delivery_data = TRUE, !.seller_notes = notes,
             !.status = "completed", !.completed_at = TRUE]

CreditSeller_Repriced(seller, tx) ==
  [seller EXCEPT !.credits = @ + listings[tx.listing_id].price * tx.quantity
                                 - tx.fee_amount,
                 !.total_sales = @ + 1]

\* the seller row after deliver_transaction's assignments
CreditSeller(seller, tx) ==
  [seller EXCEPT !.credits = @ + tx.net_amount, !.total_sales = @ + 1]

TxRow(t) == IF t \in DOMAIN transactions THEN transactions[t] ELSE NoTransaction

\* POST /transactions/{id}/deliver
deliver_transaction(a, t, notes) ==
  /\ Authenticated(a)
  /\ LET chk == deliver_check(t \in DOMAIN transactions, TxRow(t), a)
     IN IF chk.code # 200
          THEN Raise(Response("deliver", chk.code, chk.detail))
        ELSE
          /\ transactions' = [transactions EXCEPT ![t] = Delivered(@, notes)]
          /\ agents' = [agents EXCEPT ![a] = CreditSeller(@, transactions[t])]
          /\ resp' = Response("deliver", 200, "ok")
          /\ UNCHANGED <<listings, ratings, reqs, registry, guardian, community, bootstrap, library>>

confirm_check(found, tx, a) ==
  IF ~found THEN [code |-> 404, detail |-> "Transaction not found"]
  ELSE IF tx.buyer_id # a
    THEN [code |-> 403, detail |-> "Only the buyer can confirm this transaction"]
  ELSE IF tx.status # "completed"
    THEN [code |-> 400, detail |-> "Transaction is not in completed status"]
  ELSE [code |-> 200, detail |-> "ok"]

\* POST /transactions/{id}/confirm: it writes nothing
confirm_delivery(a, t) ==
  /\ Authenticated(a)
  /\ LET chk == confirm_check(t \in DOMAIN transactions, TxRow(t), a)
     IN Raise(Response("confirm", chk.code, chk.detail))

dispute_check(found, tx, a) ==
  IF ~found THEN [code |-> 404, detail |-> "Transaction not found"]
  ELSE IF tx.buyer_id # a /\ tx.seller_id # a
    THEN [code |-> 403, detail |-> "Not authorized to dispute this transaction"]
  ELSE IF tx.status \notin {"pending", "completed"}
    THEN [code |-> 400, detail |-> "Transaction cannot be disputed"]
  ELSE [code |-> 200, detail |-> "Transaction disputed"]

\* (notes or "") + "\n" + note, on text kept as its lines
AppendNote(notes, note) == Append(IF notes = None THEN <<"">> ELSE notes, note)

DisputeNote(a) == "DISPUTED by " \o a

Disputed_Overwrites(tx, a) ==
  IF tx.buyer_id = a
    THEN [tx EXCEPT !.status = "disputed", !.buyer_notes = <<"", DisputeNote(a)>>]
    ELSE [tx EXCEPT !.status = "disputed", !.seller_notes = <<"", DisputeNote(a)>>]

\* the transaction row after dispute_transaction's assignments
Disputed(tx, a) ==
  IF tx.buyer_id = a
    THEN [tx EXCEPT !.status = "disputed", !.buyer_notes = AppendNote(@, DisputeNote(a))]
    ELSE [tx EXCEPT !.status = "disputed", !.seller_notes = AppendNote(@, DisputeNote(a))]

\* POST /transactions/{id}/dispute
dispute_transaction(a, t) ==
  /\ Authenticated(a)
  /\ LET chk == dispute_check(t \in DOMAIN transactions, TxRow(t), a)
     IN IF chk.code # 200
          THEN Raise(Response("dispute", chk.code, chk.detail))
        ELSE
          /\ transactions' = [transactions EXCEPT ![t] = Disputed(@, a)]
          /\ resp' = Response("dispute", 200, chk.detail)
          /\ UNCHANGED <<agents, listings, ratings, reqs, registry, guardian, community, bootstrap, library>>

(***************************************************************************)
(* Ratings (routers/ratings.py).                                           *)
(***************************************************************************)
AlreadyRated(rs, t, a) == \E r \in rs : r.transaction_id = t /\ r.rater_id = a

rating_check_NoDuplicateCheck(found, tx, rs, a, t) ==
  IF ~found THEN [code |-> 404, detail |-> "Transaction not found"]
  ELSE IF tx.buyer_id # a /\ tx.seller_id # a
    THEN [code |-> 403, detail |-> "You are not part of this transaction"]
  ELSE IF tx.status # "completed"
    THEN [code |-> 400, detail |-> "Can only rate completed transactions"]
  ELSE [code |-> 201, detail |-> "created"]

rating_check(found, tx, rs, a, t) ==
  IF ~found THEN [code |-> 404, detail |-> "Transaction not found"]
  ELSE IF tx.buyer_id # a /\ tx.seller_id # a
    THEN [code |-> 403, detail |-> "You are not part of this transaction"]
  ELSE IF tx.status # "completed"
    THEN [code |-> 400, detail |-> "Can only rate completed transactions"]
  ELSE IF AlreadyRated(rs, t, a)
    THEN [code |-> 400, detail |-> "You have already rated this transaction"]
  ELSE [code |-> 201, detail |-> "created"]

Ratee(tx, a) == IF a = tx.buyer_id THEN tx.seller_id ELSE tx.buyer_id

NewAverage_Unweighted(ratee, score) ==
  IF ratee.rating_count = 0 THEN {100 * score}
  ELSE RoundDivSet(ratee.rating_avg + 100 * score, 2)

\* the possible new averages, in hundredths: round(total_score / count, 2)
NewAverage(ratee, score) ==
  RoundDivSet(ratee.rating_avg * ratee.rating_count + 100 * score,
              ratee.rating_count + 1)

\* POST /ratings/
create_rating(a, t, score) ==
  /\ Authenticated(a)
  /\ LET chk == rating_check(t \in DOMAIN transactions, TxRow(t), ratings, a, t)
     IN IF chk.code # 201
          THEN Raise(Response("rate", chk.code, chk.detail))
        ELSE
          LET ratee_id == Ratee(transactions[t], a)
          IN /\ ratings' = ratings \cup {[transaction_id |-> t, rater_id |-> a,
                                          ratee_id |-> ratee_id, score |-> score]}
             /\ \E avg \in NewAverage(agents[ratee_id], score) :
                  agents' = [agents EXCEPT ![ratee_id].rating_count = @ + 1,
                                           ![ratee_id].rating_avg = avg]
             /\ resp' = Response("rate", 201, "created")
             /\ UNCHANGED <<listings, transactions, reqs, registry, guardian, community, bootstrap, library>>

(***************************************************************************)
(* Credit transfer (routers/agents.py).                                    *)
(***************************************************************************)
Recipients == AgentIds \cup {"nobody"}

transfer_check(credits, a, found, recipient_id, recipient_status, amount) ==
  IF amount > credits THEN [code |-> 400, detail |-> "Insufficient credits"]
  ELSE IF ~found THEN [code |-> 404, detail |-> "Recipient agent not found"]
  ELSE IF recipient_id = a
    THEN [code |-> 400, detail |-> "Cannot transfer credits to yourself"]
  ELSE IF recipient_status # "active"
    THEN [code |-> 400, detail |-> "Recipient agent is not active"]
  ELSE [code |-> 200, detail |-> "Transferred"]

TransferOut(sender, amount) == [sender EXCEPT !.credits = @ - amount]

TransferIn_Lost(recipient, amount) == recipient

TransferIn(recipient, amount) == [recipient EXCEPT !.credits = @ + amount]

AgentStatusOf(rows, id) == IF id \in DOMAIN rows THEN rows[id].status ELSE "-"

\* POST /agents/me/credits/transfer
transfer_credits(a, recipient_id, amount) ==
  /\ Authenticated(a)
  /\ LET chk == transfer_check(agents[a].credits, a, recipient_id \in DOMAIN agents,
                               recipient_id, AgentStatusOf(agents, recipient_id), amount)
     IN IF chk.code # 200
          THEN Raise(Response("transfer", chk.code, chk.detail))
        ELSE
          /\ agents' = [agents EXCEPT ![a] = TransferOut(@, amount),
                                      ![recipient_id] = TransferIn(@, amount)]
          /\ resp' = Response("transfer", 200, chk.detail)
          /\ UNCHANGED <<listings, transactions, ratings, reqs, registry, guardian, community, bootstrap, library>>

(***************************************************************************)
(* Application bootstrap (main.py).  A request of a client address passes  *)
(* the limits registered with the limiter and reaches its route.  A        *)
(* counter is the start of its window of one minute and the hits in it.    *)
(***************************************************************************)
RATE_LIMIT_PER_MINUTE == 100
MS_PER_MINUTE == 60000

\* Limiter(key_func=get_remote_address): no default limit is given, and no
\* route is decorated with a limit
limiter == [default_limits |-> {}, route_limits |-> {}]

\* app.add_middleware: CORS, and no middleware of the limiter
user_middleware == {"CORSMiddleware"}

\* the limits (requests per minute) checked for a request: those of its
\* route, and the default limits where the limiter's middleware runs
limits ==
  limiter.route_limits
    \cup (IF "SlowAPIMiddleware" \in user_middleware THEN limiter.default_limits ELSE {})

\* the counter of a client address at the present time
Window(counters, client) ==
  IF client \in DOMAIN counters /\ now - counters[client].at < MS_PER_MINUTE
    THEN counters[client]
  ELSE [at |-> now, n |-> 0]

Hit(counters, client) ==
  (client :> [Window(counters, client) EXCEPT !.n = @ + 1]) @@ counters

\* GET /
root == Response("root", 200, "BotBid - AI Agent Marketplace")

\* a request for GET / from the address client: the limits, then the route
request(client) ==
  /\ IF \E limit \in limits : Window(storage, client).n >= limit
       THEN /\ resp' = Response("root", 429, "Rate limit exceeded")
            /\ UNCHANGED bootstrap
     ELSE /\ storage' = IF limits = {} THEN storage ELSE Hit(storage, client)
          /\ served' = Hit(served, client)
          /\ resp' = root
  /\ UNCHANGED <<agents, listings, transactions, ratings, reqs, last_active_at,
                 registry, guardian, community, library>>

\* two client addresses; the requests of an address stop one past the
\* configured limit, and time passes to the end of the clock
ClientAddresses == {"10.0.0.1", "10.0.0.2"}

NextLimit ==
  \/ \E client \in ClientAddresses :
       Window(served, client).n <= RATE_LIMIT_PER_MINUTE /\ request(client)
  \/ tick(MaxMinutes * MS_PER_MINUTE)

SpecLimit == Init /\ [][NextLimit]_vars

(***************************************************************************)
(* Calls of calculate_transaction_fee (utils/helpers.py), with amounts in  *)
(* thousandths of a credit.                                                *)
(***************************************************************************)
\* every amount up to MaxMills thousandths, and 100.0
AmountInputs == (0..MaxMills) \cup {100000}

\* calculate_transaction_fee(amount, TRANSACTION_FEE_PERCENT) is called
FeeCall(amount) ==
  [fn |-> "calculate_transaction_fee", amount |-> amount,
   fee_percent |-> TRANSACTION_FEE_PERCENT, returned |-> FALSE, fee |-> 0, net |-> 0,
   total |-> 0]

InitFee ==
  /\ agents = [a \in AgentIds |-> NewAgent("active")]
  /\ listings = <<>>
  /\ transactions = <<>>
  /\ ratings = {}
  /\ resp = NoResp
  /\ reqs = <<>>
  /\ InitPlatform
  /\ \E amount \in AmountInputs : call = FeeCall(amount)

\* the call returns (fee, net), and round(amount, 2) is evaluated next to
\* it as total: where the fee is 0, amount - fee is the amount itself and
\* its rounding is the same evaluation
transaction_fee ==
  /\ call.fn = "calculate_transaction_fee"
  /\ ~call.returned
  /\ \E result \in calculate_transaction_fee(call.amount, call.fee_percent),
        total \in RoundDivSet(call.amount, 10) :
       /\ result[1] = 0 => result[2] = 10 * total
       /\ call' = [call EXCEPT !.returned = TRUE, !.fee = result[1], !.net = result[2],
                                !.total = 10 * total]
  /\ UNCHANGED <<agents, listings, transactions, ratings, resp, reqs, last_active_at,
                 registry, guardian, community, bootstrap>>

NextFee == transaction_fee

SpecFee == InitFee /\ [][NextFee]_vars

(***************************************************************************)
(* The SDK (sdk/agent_sdk.py): MarketplaceAgent._request on the response   *)
(* of the server.  A body is its text, what json() makes of it (an         *)
(* object, an array, or nothing: the text is no JSON) and the object.      *)
(***************************************************************************)
NoObject == <<>>

Bodies ==
  {[text |-> "{\"detail\": \"Listing not found\"}", kind |-> "object",
    object |-> [detail |-> "Listing not found"]],
   [text |-> "{\"error\": \"boom\"}", kind |-> "object", object |-> [error |-> "boom"]],
   [text |-> "[\"boom\"]", kind |-> "array", object |-> NoObject],
   [text |-> "<html>Bad Gateway</html>", kind |-> "invalid", object |-> NoObject],
   [text |-> "", kind |-> "invalid", object |-> NoObject]}

\* 200 and 201, and every client and server error
StatusCodes == {200, 201} \cup (400..599)

\* str(error_data) of a dict
str(object) ==
  IF object = [error |-> "boom"] THEN "{'error': 'boom'}"
  ELSE "{'detail': 'Listing not found'}"

\* raise exception(message, status_code=..., details=...)
Raised(exception, message, status_code, details) ==
  [raised |-> exception, message |-> message, status_code |-> status_code,
   details |-> details, returned |-> NoObject]

Returned(body) ==
  [raised |-> "-", message |-> <<>>, status_code |-> 0, details |-> NoObject,
   returned |-> body.object]

\* _request after self._client.request answered response: what it raises
\* or returns.  error_data is bound when response.json() returned;
\* error_data.get raises on what is no dict, which the except clause takes
\* like a body that is no JSON.
_request(response) ==
  LET body == response.body
      error_data_bound == body.kind # "invalid"
      detail == IF body.kind = "object"
                  THEN IF "detail" \in DOMAIN body.object THEN body.object.detail
                       ELSE str(body.object)
                ELSE body.text
  IN IF response.status_code >= 400
       THEN IF ~error_data_bound
              THEN Raised("UnboundLocalError",
                          <<"cannot access local variable 'error_data'">>, 0, NoObject)
            ELSE Raised("MarketplaceError", <<"API error: ", detail>>,
                        response.status_code,
                        IF body.kind = "object" THEN body.object ELSE NoObject)
     ELSE IF body.kind = "invalid"
       THEN Raised("JSONDecodeError", <<"Expecting value">>, 0, NoObject)
     ELSE Returned(body)

RequestCall(response) == [fn |-> "_request", response |-> response, done |-> FALSE,
                          outcome |-> Returned([object |-> NoObject])]

InitSdk ==
  /\ agents = [a \in AgentIds |-> NewAgent("active")]
  /\ listings = <<>>
  /\ transactions = <<>>
  /\ ratings = {}
  /\ resp = NoResp
  /\ reqs = <<>>
  /\ InitPlatform
  /\ \E status_code \in StatusCodes, body \in Bodies :
       call = RequestCall([status_code |-> status_code, body |-> body])

\* the call ends
sdk_request ==
  /\ call.fn = "_request"
  /\ ~call.done
  /\ call' = [call EXCEPT !.done = TRUE, !.outcome = _request(call.response)]
  /\ UNCHANGED <<agents, listings, transactions, ratings, resp, reqs, last_active_at,
                 registry, guardian, community, bootstrap>>

NextSdk == sdk_request

SpecSdk == InitSdk /\ [][NextSdk]_vars

(***************************************************************************)
(* Requests handled one at a time.                                         *)
(***************************************************************************)
\* the seller restocks, withdraws and reopens
StockUpdates == {u \in ListingUpdates : u.price = Unset}

\* the listings of one seller, and purchases by the seller and by a buyer
ListingRequests ==
  \/ \E p \in Prices, q \in 1..MaxQty :
       Len(listings) < MaxListings /\ create_listing("a1", CleanText, p, q)
  \/ \E l \in ListingIds, u \in StockUpdates : update_listing("a1", l, u)
  \/ \E l \in ListingIds : delete_listing("a1", l)

NextBuy ==
  \/ ListingRequests
  \/ \E a \in {"a1", "a2"}, l \in ListingIds, q \in 1..MaxQty : create_purchase(a, l, q, None)

SpecBuy == Init /\ [][NextBuy]_vars

\* the life of the listings of a1 with a second agent who buys, views and
\* tries to update and delete them, and anonymous views
ViewKeys == {NoKey, FirstKey("a1"), FirstKey("a2")}

\* the seller reopens, closes and restocks
LifeUpdates ==
  {[NoUpdate EXCEPT !.status = {"active"}], [NoUpdate EXCEPT !.status = {"sold"}],
   [NoUpdate EXCEPT !.quantity = {MaxQty}]}

NextListing ==
  \/ \E q \in {1, MaxQty} :
       Len(listings) < MaxListings /\ create_listing("a1", CleanText, 333, q)
  \/ \E l \in ListingIds, u \in LifeUpdates : update_listing("a1", l, u)
  \/ \E l \in ListingIds : update_listing("a2", l, [NoUpdate EXCEPT !.status = {"active"}])
  \/ \E a \in {"a1", "a2"}, l \in ListingIds : delete_listing(a, l)
  \/ \E a \in {"a1", "a2"}, l \in ListingIds : create_purchase(a, l, 1, None)
  \/ \E k \in ViewKeys, l \in ListingIds : get_listing(k, l)

SpecListing == Init /\ [][NextListing]_vars

\* a seller who lists and cancels, and three agents who watch and unwatch
NextWatch ==
  \/ Len(listings) < MaxListings /\ create_listing("a1", CleanText, 333, 1)
  \/ \E l \in ListingIds : delete_listing("a1", l)
  \/ \E a \in AgentIds, l \in ListingIds : add_to_watchlist(a, l, TRUE, TRUE)
  \/ \E a \in AgentIds, l \in ListingIds : remove_from_watchlist(a, l)

SpecWatch == Init /\ [][NextWatch]_vars

\* two agents who write to each other, about a listing or not, and fetch
\* their conversation in pages of 1 and of 50 messages
MessageReceivers == {"a1", "a2", "a9"}
ListingFilters == {None, <<1>>}
PageInputs == {1, 2}
PageSizes == {1, 50}

NextMessage ==
  \/ Len(listings) < MaxListings /\ create_listing("a1", CleanText, 333, 1)
  \/ \E a \in {"a1", "a2"}, r \in MessageReceivers, l \in ListingFilters :
       send_message(a, r, l)
  \/ \E a \in {"a1", "a2"}, r \in MessageReceivers, l \in ListingFilters,
         page \in PageInputs, page_size \in PageSizes :
       get_conversation(a, r, l, page, page_size)

SpecMessage == Init /\ [][NextMessage]_vars

\* two agents who write to each other and, as time passes, read: by
\* fetching the conversation and by marking single messages
NextRead ==
  \/ \E a \in {"a1", "a2"}, r \in {"a1", "a2"} : send_message(a, r, None)
  \/ \E a \in {"a1", "a2"}, r \in {"a1", "a2"} : get_conversation(a, r, None, 1, 50)
  \/ \E a \in {"a1", "a2"}, m \in 1..MaxMessages : mark_message_read(a, m)
  \/ tick(280000)

SpecRead == Init /\ [][NextRead]_vars

\* a transaction's life after the purchase: one seller, one buyer; the
\* seller reprices and restocks
PriceQuantityUpdates == {u \in ListingUpdates : u.status = Unset}

NextTrade ==
  \/ \E p \in Prices, q \in 1..MaxQty : create_listing("a1", CleanText, p, q)
  \/ \E l \in ListingIds, u \in PriceQuantityUpdates : update_listing("a1", l, u)
  \/ \E l \in ListingIds, q \in 1..MaxQty : create_purchase("a2", l, q, None)
  \/ \E a \in {"a1", "a2"}, t \in TxIds : deliver_transaction(a, t, None)
  \/ \E a \in {"a1", "a2"}, t \in TxIds : confirm_delivery(a, t)
  \/ \E a \in {"a1", "a2"}, t \in TxIds : dispute_transaction(a, t)

SpecTrade == Init /\ [][NextTrade]_vars

\* disputes of a sale whose buyer and seller may have left notes
NextDispute ==
  \/ create_listing("a1", CleanText, 333, MaxQty)
  \/ \E l \in ListingIds, n \in BuyerNoteInputs : create_purchase("a2", l, 1, n)
  \/ \E t \in TxIds, n \in SellerNoteInputs : deliver_transaction("a1", t, n)
  \/ \E a \in AgentIds, t \in TxIds : dispute_transaction(a, t)

SpecDispute == Init /\ [][NextDispute]_vars

\* ratings of the sales of one seller
NextRate ==
  \/ \E q \in 1..MaxQty : create_listing("a1", CleanText, 333, q)
  \/ \E l \in ListingIds : create_purchase("a2", l, 1, None)
  \/ \E a \in AgentIds, t \in TxIds : deliver_transaction(a, t, None)
  \/ \E a \in AgentIds, t \in TxIds : dispute_transaction(a, t)
  \/ \E a \in AgentIds, t \in TxIds, sc \in Scores : create_rating(a, t, sc)

SpecRate == Init /\ [][NextRate]_vars

\* credit transfers between the agents.  Agent.status is never written by
\* the routers, an operator sets it in the store: the third agent is active,
\* pending (may call, may not receive) or suspended (may do neither)
InitTransfer == \E st \in {"active", "pending", "suspended"} : InitWith(st)

NextTransfer ==
  \/ \E a \in AgentIds : auth_rejected(a)
  \/ \E a \in AgentIds, r \in Recipients, m \in TransferAmounts : transfer_credits(a, r, m)

SpecTransfer == InitTransfer /\ [][NextTransfer]_vars

\* the ratings one seller receives for MaxSales delivered sales of one
\* listing to one buyer, at 10 credits each (fee 0.25, net 9.75)
SalePrice == 10000
AverageScores == {3, 4, 5}

InitAverage ==
  LET row == [seller_id |-> "a1", price |-> SalePrice, quantity |-> MaxSales,
              status |-> "active"]
      fee_net == CHOOSE x \in calculate_transaction_fee(SalePrice, TRANSACTION_FEE_PERCENT) : TRUE
      sale == Delivered(NewTransaction(1, row, "a2", 1, SalePrice, fee_net, None), None)
  IN /\ agents = [a \in AgentIds |->
                    IF a = "a1"
                      THEN [NewAgent("active") EXCEPT !.credits = @ + MaxSales * sale.net_amount,
                                                      !.total_sales = MaxSales]
                    ELSE IF a = "a2"
                      THEN [NewAgent("active") EXCEPT !.credits = @ - MaxSales * sale.total_amount,
                                                      !.total_purchases = MaxSales]
                    ELSE NewAgent("active")]
     /\ listings = <<TakeStock(row, MaxSales)>>
     /\ transactions = [k \in 1..MaxSales |-> sale]
     /\ ratings = {}
     /\ resp = NoResp
     /\ reqs = <<>>
     /\ InitPlatform
     /\ call = NoCall

NextAverage == \E t \in 1..MaxSales, sc \in AverageScores : create_rating("a2", t, sc)

SpecAverage == InitAverage /\ [][NextAverage]_vars

\* registrations: challenges are issued, time passes, answers are submitted
ChallengeIds == 1..MaxChallenges

NextRegister ==
  \/ get_registration_challenge
  \/ \E d \in Delays : tick(d)
  \/ \E c \in ChallengeIds, ans \in AnswerInputs, e \in EmailInputs, el \in ElapsedInputs :
       register_agent(c, ans, e, el)

SpecRegister == Init /\ [][NextRegister]_vars

\* the same, for registrations that give no email
NextChallenge ==
  \/ get_registration_challenge
  \/ \E d \in Delays : tick(d)
  \/ \E c \in ChallengeIds, ans \in AnswerInputs, el \in ElapsedInputs :
       register_agent(c, ans, None, el)

SpecChallenge == Init /\ [][NextChallenge]_vars

\* the credits of the platform: agents register, one seller lists, a
\* buyer buys, the sale is delivered and disputed, and the seller sends
\* credits, a part or all of the starting credits, to the buyer and to
\* the agents registered since the start
LedgerAmounts == {70000, DEFAULT_AGENT_CREDITS}

NextLedger ==
  \/ n_challenges < MaxRegistrations /\ get_registration_challenge
  \/ \E c \in 1..MaxRegistrations, ans \in ExpectedAnswers : register_agent(c, ans, None, 0)
  \/ \E p \in Prices :
       Len(listings) < MaxListings /\ create_listing("a1", CleanText, p, MaxQty)
  \/ \E l \in ListingIds, q \in {1, MaxQty} : create_purchase("a2", l, q, None)
  \/ \E t \in TxIds : deliver_transaction("a1", t, None)
  \/ \E t \in TxIds : dispute_transaction("a2", t)
  \/ \E r \in DOMAIN agents \ {"a3"}, m \in LedgerAmounts : transfer_credits("a1", r, m)

SpecLedger == Init /\ [][NextLedger]_vars

\* requests under every kind of key: the third agent is active, suspended
\* or banned; callers read their profile, regenerate their key and send
\* 70 credits, and time passes
InitAuth == \E st \in {"active", "suspended", "banned"} : InitWith(st)

NextAuth ==
  \/ \E k \in KeyInputs : unauthenticated(k)
  \/ \E k \in KeyInputs, a \in AgentIds : WithKey(k, a) /\ get_current_agent_info(a)
  \/ \E k \in KeyInputs, a \in AgentIds : WithKey(k, a) /\ regenerate_api_key(a)
  \/ \E k \in KeyInputs, a \in AgentIds, r \in AgentIds :
       WithKey(k, a) /\ transfer_credits(a, r, 70000)
  \/ tick(280000)

SpecAuth == InitAuth /\ [][NextAuth]_vars

\* listings of every severity submitted to the Guardian by two agents, at a
\* price inside and a price below the limits
TextInputs ==
  {CleanText, {"unlock"}, {"report", "unlock", "free"}, {"virus"}, {"bypass security"},
   {"hacking", "unlock"}, {"malware"}, {"malware", "unlock"},
   {"malware", "exploit", "hacking"}}

PriceInputs == {5, 333}

NextGuardian ==
  \E a \in {"a1", "a2"}, text \in TextInputs, p \in PriceInputs :
    Len(moderation_logs) < MaxReviews /\ create_listing(a, text, p, 1)

SpecGuardian == Init /\ [][NextGuardian]_vars

\* longer histories of two agents with the Guardian: clean texts, texts of
\* the severities 0 (unsafe), 1, 3 and 5, all at a valid price
MaxVerdicts == 4

TrustInputs ==
  {CleanText, {"virus"}, {"unlock"}, {"hacking", "unlock"}, {"malware", "unlock"}}

NextTrust ==
  \E a \in {"a1", "a2"}, text \in TrustInputs :
    Len(moderation_logs) < MaxVerdicts /\ create_listing(a, text, 333, 1)

SpecTrust == Init /\ [][NextTrust]_vars

\* one agent submitting listings and categories to the Guardian: a new
\* name, the name of a default category, a prohibited name, a prohibited
\* description and a parent that does not exist
CategoryInputs ==
  {[name |-> <<"Robots">>, description |-> None, parent_id |-> None],
   [name |-> <<"-", "TOOLS", "U+2713">>, description |-> None, parent_id |-> None],
   [name |-> <<"Virus">>, description |-> None, parent_id |-> None],
   [name |-> <<"Robots", " ", "&", " ", "Data">>, description |-> <<"malware">>,
    parent_id |-> <<"c1">>],
   [name |-> <<"AI", "_", "Tools">>, description |-> None, parent_id |-> <<"c99">>]}

LogInputs == {CleanText, {"hacking", "unlock"}, {"malware", "unlock"}}

NextLog ==
  \/ \E text \in LogInputs :
       Len(moderation_logs) < MaxVerdicts /\ create_listing("a1", text, 333, 1)
  \/ \E c \in CategoryInputs :
       /\ Len(moderation_logs) < MaxVerdicts
       /\ create_category("a1", c.name, IF c.description = None THEN <<>> ELSE c.description,
                          c.parent_id)

SpecLog == Init /\ [][NextLog]_vars

\* one agent creating categories between restarts: a new name, two names
\* of one new slug, a name with the slug of a default category, and two
\* names whose slug is empty
CategoryNames ==
  {<<"Robots">>, <<"Robots", " ", "&", " ", "Data">>, <<"Robots", "-", "Data">>,
   <<"-", "TOOLS", "U+2713">>, <<"&", "&">>, <<"U+2713", "U+2713">>}

NextCategory ==
  \/ \E name \in CategoryNames :
       Len(moderation_logs) < MaxCategories /\ create_category("a1", name, <<>>, None)
  \/ lifespan

SpecCategory == Init /\ [][NextCategory]_vars

\* two agents that get listings removed and go on using their keys
SuspendKeys == {FirstKey("a1"), FirstKey("a2"), create_api_key(0)}
SuspendInputs == {CleanText, {"malware", "unlock"}}

NextSuspend ==
  \/ \E k \in SuspendKeys : unauthenticated(k)
  \/ \E k \in SuspendKeys, a \in {"a1", "a2"}, text \in SuspendInputs :
       /\ Len(moderation_logs) <= MaxVerdicts
       /\ WithKey(k, a)
       /\ create_listing(a, text, 333, 1)
  \/ \E k \in SuspendKeys, a \in {"a1", "a2"} : WithKey(k, a) /\ get_current_agent_info(a)
  \/ \E k \in SuspendKeys, a \in {"a1", "a2"}, r \in AgentIds :
       WithKey(k, a) /\ transfer_credits(a, r, 70000)

SpecSuspend == Init /\ [][NextSuspend]_vars

(***************************************************************************)
(* Requests in flight together.  Each request has its own session: it      *)
(* reads the caller's row when it authenticates, reads the listing or the  *)
(* recipient in the handler, validates what it has read, assigns to its    *)
(* copies and commits.  Other requests run while it awaits the store.      *)
(***************************************************************************)
\* the session of one request: its own, with no row loaded yet
get_db == [found |-> FALSE, row |-> NoListing]

NewRequest(op, a, l, q, m, r) ==
  [op |-> op, caller |-> a, lid |-> l, q |-> q, amount |-> m, peer |-> r,
   pc |-> "authed", agent |-> agents[a], found |-> get_db.found, row |-> get_db.row,
   code |-> 0]

\* get_current_agent of a purchase request has loaded the caller
receive_purchase(a, l, q) ==
  /\ Authenticated(a)
  /\ Len(reqs) < MaxRequests
  /\ reqs' = Append(reqs, NewRequest("buy", a, l, q, 0, "-"))
  /\ UNCHANGED <<agents, listings, transactions, ratings, resp, registry, guardian, community, bootstrap, library>>

\* get_current_agent of a transfer request has loaded the caller
receive_transfer(a, r, m) ==
  /\ Authenticated(a)
  /\ Len(reqs) < MaxRequests
  /\ reqs' = Append(reqs, NewRequest("transfer", a, 0, 0, m, r))
  /\ UNCHANGED <<agents, listings, transactions, ratings, resp, registry, guardian, community, bootstrap, library>>

Finish(i, code, detail) ==
  /\ reqs' = [reqs EXCEPT ![i].pc = "done", ![i].code = code]
  /\ resp' = Response(reqs[i].op, code, detail)

\* create_purchase up to its commit: select the listing and validate
read_listing(i) ==
  /\ i \in DOMAIN reqs
  /\ reqs[i].op = "buy" /\ reqs[i].pc = "authed"
  /\ LET rq == reqs[i]
         row == ListingRow(listings, rq.lid)
         chk == purchase_check(rq.lid \in DOMAIN listings, row, rq.agent.credits,
                               rq.caller, rq.q)
     IN IF chk.code # 201
          THEN Finish(i, chk.code, chk.detail)
          ELSE /\ reqs' = [reqs EXCEPT ![i].pc = "checked", ![i].found = TRUE,
                                       ![i].row = row]
               /\ resp' = resp
  /\ UNCHANGED <<agents, listings, transactions, ratings, last_active_at, registry, guardian, community, bootstrap, library>>

\* the commit of create_purchase
commit_purchase(i) ==
  /\ i \in DOMAIN reqs
  /\ reqs[i].op = "buy" /\ reqs[i].pc = "checked"
  /\ LET rq == reqs[i]
         total_amount == rq.row.price * rq.q
     IN /\ \E fee_net \in calculate_transaction_fee(total_amount, TRANSACTION_FEE_PERCENT) :
             transactions' = Append(transactions,
                                    NewTransaction(rq.lid, rq.row, rq.caller, rq.q,
                                                   total_amount, fee_net, None))
        /\ agents' = [agents EXCEPT ![rq.caller] =
                        Flush(@, rq.agent, DebitBuyer(rq.agent, total_amount))]
        /\ listings' = [listings EXCEPT ![rq.lid] =
                          Flush(@, rq.row, TakeStock(rq.row, rq.q))]
  /\ Finish(i, 201, "created")
  /\ UNCHANGED <<ratings, last_active_at, registry, guardian, community, bootstrap, library>>

\* transfer_credits up to its commit: validate and select the recipient
read_recipient(i) ==
  /\ i \in DOMAIN reqs
  /\ reqs[i].op = "transfer" /\ reqs[i].pc = "authed"
  /\ LET rq == reqs[i]
         chk == transfer_check(rq.agent.credits, rq.caller, rq.peer \in DOMAIN agents,
                               rq.peer, AgentStatusOf(agents, rq.peer), rq.amount)
     IN IF chk.code # 200
          THEN Finish(i, chk.code, chk.detail)
          ELSE /\ reqs' = [reqs EXCEPT ![i].pc = "checked", ![i].found = TRUE,
                                       ![i].row = agents[rq.peer]]
               /\ resp' = resp
  /\ UNCHANGED <<agents, listings, transactions, ratings, last_active_at, registry, guardian, community, bootstrap, library>>

\* the commit of transfer_credits
commit_transfer(i) ==
  /\ i \in DOMAIN reqs
  /\ reqs[i].op = "transfer" /\ reqs[i].pc = "checked"
  /\ LET rq == reqs[i]
     IN agents' = [agents EXCEPT
                     ![rq.caller] = Flush(@, rq.agent, TransferOut(rq.agent, rq.amount)),
                     ![rq.peer] = Flush(@, rq.row, TransferIn(rq.row, rq.amount))]
  /\ Finish(i, 200, "Transferred")
  /\ UNCHANGED <<listings, transactions, ratings, last_active_at, registry, guardian, community, bootstrap, library>>

RequestIds == 1..MaxRequests

\* two buyers of the first listing, one of them also sending credits to
\* the other
NextRace ==
  \/ \E q \in 1..MaxQty : create_listing("a1", CleanText, 60000, q)
  \/ \E a \in {"a2", "a3"} : receive_purchase(a, 1, 1)
  \/ receive_transfer("a2", "a3", 70000)
  \/ \E i \in RequestIds : read_listing(i)
  \/ \E i \in RequestIds : commit_purchase(i)
  \/ \E i \in RequestIds : read_recipient(i)
  \/ \E i \in RequestIds : commit_transfer(i)

SpecRace == Init /\ [][NextRace]_vars

(***************************************************************************)
(* Purchases.                                                              *)
(***************************************************************************)
\* the rows a purchase leaves alone
PurchaseFrame(a, l) ==
  /\ \A b \in AgentIds \ {a} : agents'[b] = agents[b]
  /\ agents'[a].status = agents[a].status
  /\ agents'[a].total_sales = agents[a].total_sales
  /\ agents'[a].rating_avg = agents[a].rating_avg
  /\ agents'[a].rating_count = agents[a].rating_count
  /\ DOMAIN listings' = DOMAIN listings
  /\ \A k \in DOMAIN listings : k # l => listings'[k] = listings[k]
  /\ listings'[l].seller_id = listings[l].seller_id
  /\ listings'[l].price = listings[l].price
  /\ ratings' = ratings
  /\ Len(transactions') = Len(transactions) + 1
  /\ \A k \in DOMAIN transactions : transactions'[k] = transactions[k]

\* what C1 says of a successful purchase, except for net_amount
PurchaseEffect(a, l, q) ==
  LET tx == transactions'[Len(transactions')]
      total == listings[l].price * q
  IN /\ agents'[a].credits = agents[a].credits - total
     /\ agents'[a].total_purchases = agents[a].total_purchases + 1
     /\ listings'[l].quantity = listings[l].quantity - q
     /\ PurchaseFrame(a, l)
     /\ tx.status = "pending"
     /\ tx.buyer_id = a
     /\ tx.seller_id = listings[l].seller_id
     /\ tx.listing_id = l
     /\ tx.quantity = q
     /\ tx.unit_price = listings[l].price
     /\ tx.total_amount = total
     /\ agents'[listings[l].seller_id].credits = agents[listings[l].seller_id].credits

Bought(a, l, q) ==
  resp' = Response("buy", 201, "created") /\ \E n \in BuyerNoteInputs : create_purchase(a, l, q, n)

NotAvailable == Response("buy", 400, "Listing is not available for purchase")

\* C4: the purchase that takes a listing's last unit sets its status to
\* sold in the same step; a sold listing stays sold, and every purchase
\* attempt against it answers 400 not available and writes nothing (no
\* purchase request for a sold listing makes any other step).
C4_SoldOut ==
  [][/\ \A l \in DOMAIN listings :
          listings[l].status = "sold" => l \in DOMAIN listings' /\ listings'[l] = listings[l]
     /\ resp'.op = "buy" =>
          /\ resp'.code = 201 =>
               \A a \in AgentIds, l \in ListingIds, q \in 1..MaxQty :
                 (Bought(a, l, q) /\ listings'[l].quantity = 0) => listings'[l].status = "sold"
          /\ ~(resp' = NotAvailable /\ UNCHANGED <<agents, listings, transactions, ratings>>) =>
               \A l \in DOMAIN listings :
                 listings[l].status = "sold" =>
                   \A a \in AgentIds, q \in 1..MaxQty, n \in BuyerNoteInputs :
                     ~create_purchase(a, l, q, n)]_vars

\* a listing sold out by a purchase has just refused another purchase
C4_Witness ==
  /\ resp = NotAvailable
  /\ \E k \in DOMAIN transactions :
       LET l == transactions[k].listing_id
       IN listings[l].status = "sold" /\ listings[l].quantity = 0

\* the conditions under which C5 says a purchase fails
PurchaseMustFail(a, l, q) ==
  \/ l \notin DOMAIN listings
  \/ listings[l].status # "active"
  \/ listings[l].seller_id = a
  \/ q > listings[l].quantity
  \/ agents[a].credits < listings[l].price * q

\* the status code C5 expects of a purchase that must fail
RefusalCode(l) == IF l \in DOMAIN listings THEN 400 ELSE 404

\* C5: a purchase of a missing listing answers 404, and a purchase of an
\* inactive or own listing, of more than the available quantity or beyond
\* the buyer's credits answers 400 (no such request makes a step that
\* answers otherwise); a refused purchase leaves agents, listings and
\* transactions unchanged.
C5_PurchaseRejected ==
  [][resp'.op = "buy" =>
       /\ resp'.code # 201 => UNCHANGED <<agents, listings, transactions, ratings>>
       /\ \A a \in AgentIds, l \in ListingIds, q \in 1..MaxQty :
            (PurchaseMustFail(a, l, q) /\ resp'.code # RefusalCode(l)) =>
              \A n \in BuyerNoteInputs : ~create_purchase(a, l, q, n)]_vars

\* a purchase was refused for lack of credits: an active listing holds
\* stock worth more than another agent's balance
C5_Witness ==
  /\ resp = Response("buy", 400, "Insufficient credits")
  /\ \E l \in DOMAIN listings, a \in AgentIds :
       /\ listings[l].status = "active"
       /\ listings[l].seller_id # a
       /\ agents[a].credits < listings[l].price * listings[l].quantity

(***************************************************************************)
(* Delivery.                                                               *)
(***************************************************************************)
DeliverRequest(a, t) == \E n \in SellerNoteInputs : deliver_transaction(a, t, n)

\* what a seller has received and a buyer has paid over the first k
\* transactions
RECURSIVE Ledger(_, _)
Ledger(a, k) ==
  IF k = 0 THEN 0
  ELSE Ledger(a, k - 1)
         + (IF transactions[k].seller_id = a /\ transactions[k].completed_at
              THEN transactions[k].net_amount ELSE 0)
         - (IF transactions[k].buyer_id = a THEN transactions[k].total_amount ELSE 0)

Delivered_(a) ==
  {k \in DOMAIN transactions : transactions[k].seller_id = a /\ transactions[k].completed_at}

\* C2: deliver succeeds only for the seller of a pending transaction; it
\* completes the transaction and adds net_amount to the seller's credits
\* and 1 to total_sales; a transaction that left pending never returns to
\* it, a deliver on it by its seller answers 400 and writes nothing, and so
\* every seller holds the net_amount of each delivered sale exactly once.
C2_DeliverOnce ==
  /\ [](\A a \in AgentIds :
          /\ agents[a].total_sales = Cardinality(Delivered_(a))
          /\ agents[a].credits = DEFAULT_AGENT_CREDITS + Ledger(a, Len(transactions)))
  /\ [][\A a \in AgentIds, t \in TxIds :
          /\ (resp'.op = "deliver" /\ resp'.code = 200 /\ DeliverRequest(a, t)) =>
               /\ t \in DOMAIN transactions
               /\ transactions[t].seller_id = a
               /\ transactions[t].status = "pending"
               /\ transactions'[t].status = "completed"
               /\ agents'[a].credits = agents[a].credits + transactions[t].net_amount
               /\ agents'[a].total_sales = agents[a].total_sales + 1
               /\ \A b \in AgentIds \ {a} : agents'[b] = agents[b]
          /\ (t \in DOMAIN transactions /\ transactions[t].status # "pending") =>
               /\ transactions'[t].status # "pending"
               /\ (resp'.op = "deliver" /\ transactions[t].seller_id = a /\ DeliverRequest(a, t)) =>
                    /\ resp' = Response("deliver", 400, "Transaction cannot be delivered")
                    /\ UNCHANGED <<agents, listings, transactions, ratings>>]_vars

\* a delivered transaction was delivered again and refused; its seller
\* holds the net amount once
C2_Witness ==
  /\ resp = Response("deliver", 400, "Transaction cannot be delivered")
  /\ \E k \in DOMAIN transactions :
       /\ transactions[k].status = "completed"
       /\ transactions[k].net_amount > 0
       /\ agents[transactions[k].seller_id].total_sales = 1
       /\ agents[transactions[k].seller_id].credits
            = DEFAULT_AGENT_CREDITS + transactions[k].net_amount

\* the amounts of a transaction
Amounts(tx) == <<tx.unit_price, tx.total_amount, tx.fee_amount, tx.net_amount>>

\* C9: no step changes the unit_price, total_amount, fee_amount or
\* net_amount of an existing transaction, whatever the seller does to the
\* listing; they remain the amounts computed at purchase from the price
\* and quantity bought, and a delivery credits that net_amount.
C9_AmountsFixed ==
  /\ [](\A k \in DOMAIN transactions :
          LET tx == transactions[k]
          IN /\ tx.total_amount = tx.unit_price * tx.quantity
             /\ <<tx.fee_amount, tx.net_amount>>
                  \in calculate_transaction_fee(tx.total_amount, TRANSACTION_FEE_PERCENT))
  /\ [][/\ \A k \in DOMAIN transactions :
             k \in DOMAIN transactions' /\ Amounts(transactions'[k]) = Amounts(transactions[k])
        /\ \A a \in AgentIds, t \in TxIds :
             (resp'.op = "deliver" /\ resp'.code = 200 /\ DeliverRequest(a, t)) =>
               agents'[a].credits - agents[a].credits = transactions[t].net_amount]_vars

\* a sale was delivered after the seller had changed the listing's price
C9_Witness ==
  \E k \in DOMAIN transactions :
    /\ transactions[k].completed_at
    /\ listings[transactions[k].listing_id].price # transactions[k].unit_price
    /\ agents[transactions[k].seller_id].credits
         = DEFAULT_AGENT_CREDITS + transactions[k].net_amount

(***************************************************************************)
(* Disputes.                                                               *)
(***************************************************************************)
\* new is old with one more line at its end
Extends(old, new) == Len(new) = Len(old) + 1 /\ SubSeq(new, 1, Len(old)) = old

\* C8: a dispute by an agent that is neither buyer nor seller answers 403,
\* one on a transaction that is neither pending nor completed answers 400,
\* and both write nothing; otherwise the status becomes disputed, the
\* caller's own notes keep their text and gain one line naming the caller,
\* and the other party's notes and all other fields stay as they were.
C8_Dispute ==
  [][\A a \in AgentIds, t \in TxIds :
       (resp'.op = "dispute" /\ t \in DOMAIN transactions /\ dispute_transaction(a, t)) =>
         LET tx == transactions[t]
             after == transactions'[t]
         IN IF a # tx.buyer_id /\ a # tx.seller_id
              THEN resp'.code = 403 /\ UNCHANGED <<agents, listings, transactions, ratings>>
            ELSE IF tx.status \notin {"pending", "completed"}
              THEN resp'.code = 400 /\ UNCHANGED <<agents, listings, transactions, ratings>>
            ELSE
              /\ resp'.code = 200
              /\ after.status = "disputed"
              /\ IF a = tx.buyer_id
                   THEN /\ Extends(tx.buyer_notes, after.buyer_notes)
                           \/ (tx.buyer_notes = None /\ Extends(<<"">>, after.buyer_notes))
                        /\ after.buyer_notes[Len(after.buyer_notes)] = "DISPUTED by " \o a
                        /\ after.seller_notes = tx.seller_notes
                   ELSE /\ Extends(tx.seller_notes, after.seller_notes)
                           \/ (tx.seller_notes = None /\ Extends(<<"">>, after.seller_notes))
                        /\ after.seller_notes[Len(after.seller_notes)] = "DISPUTED by " \o a
                        /\ after.buyer_notes = tx.buyer_notes
              /\ after = [tx EXCEPT !.status = after.status,
                                    !.buyer_notes = after.buyer_notes,
                                    !.seller_notes = after.seller_notes]
              /\ \A k \in DOMAIN transactions : k # t => transactions'[k] = transactions[k]
              /\ UNCHANGED <<agents, listings, ratings>>]_vars

\* a buyer whose purchase carried a note has disputed it after delivery
C8_Witness ==
  /\ resp = Response("dispute", 200, "Transaction disputed")
  /\ \E k \in DOMAIN transactions :
       /\ transactions[k].status = "disputed"
       /\ transactions[k].completed_at
       /\ transactions[k].buyer_notes = <<"bn", "DISPUTED by " \o transactions[k].buyer_id>>
       /\ transactions[k].seller_notes = <<"sn">>

(***************************************************************************)
(* Ratings.                                                                *)
(***************************************************************************)
RatingsBy(t, a) == {r \in ratings : r.transaction_id = t /\ r.rater_id = a}

\* C10: a rating is stored only for an existing transaction that is
\* completed, by its buyer or its seller, about the other party; a rating
\* of a missing transaction answers 404, by an outsider 403, of a
\* transaction that is not completed 400, and a second one by the same
\* rater 400, all without writing; no rating is ever removed; so each
\* (transaction, rater) pair has at most one rating, and one party's rating
\* never blocks the other's.
C10_OneRatingEach ==
  /\ [](\A r \in ratings :
          /\ r.transaction_id \in DOMAIN transactions
          /\ transactions[r.transaction_id].completed_at
          /\ {r.rater_id, r.ratee_id} = {transactions[r.transaction_id].buyer_id,
                                         transactions[r.transaction_id].seller_id}
          /\ RatingsBy(r.transaction_id, r.rater_id) = {r})
  /\ [][/\ ratings \subseteq ratings'
        /\ \A a \in AgentIds, t \in TxIds, sc \in Scores :
             (resp'.op = "rate" /\ create_rating(a, t, sc)) =>
               IF t \notin DOMAIN transactions
                 THEN resp'.code = 404 /\ UNCHANGED <<agents, transactions, ratings>>
               ELSE IF a # transactions[t].buyer_id /\ a # transactions[t].seller_id
                 THEN resp'.code = 403 /\ UNCHANGED <<agents, transactions, ratings>>
               ELSE IF transactions[t].status # "completed" \/ RatingsBy(t, a) # {}
                 THEN resp'.code = 400 /\ UNCHANGED <<agents, transactions, ratings>>
               ELSE
                 /\ resp'.code = 201
                 /\ \E r \in ratings' :
                      /\ ratings' = ratings \cup {r}
                      /\ r \notin ratings
                      /\ r.transaction_id = t /\ r.rater_id = a /\ r.score = sc]_vars

\* buyer and seller have both rated one transaction, and a further rating
\* of it by one of them was refused
C10_Witness ==
  /\ resp = Response("rate", 400, "You have already rated this transaction")
  /\ \E k \in DOMAIN transactions :
       /\ transactions[k].status = "completed"
       /\ RatingsBy(k, transactions[k].buyer_id) # {}
       /\ RatingsBy(k, transactions[k].seller_id) # {}

(***************************************************************************)
(* Credit transfers.                                                       *)
(***************************************************************************)
\* C3: a transfer of more than the sender's balance, to a missing agent,
\* to the sender itself or to an agent that is not active fails and leaves
\* every agent as it was; any other transfer succeeds, takes the amount
\* from the sender's credits, adds it to the recipient's and changes
\* nothing else.
C3_TransferAllOrNothing ==
  [][\A a \in AgentIds, r \in Recipients, m \in TransferAmounts :
       (resp'.op = "transfer" /\ transfer_credits(a, r, m)) =>
         IF \/ m > agents[a].credits
            \/ r \notin DOMAIN agents
            \/ r = a
            \/ agents[r].status # "active"
           THEN /\ resp'.code \in {400, 404}
                /\ UNCHANGED <<agents, listings, transactions, ratings>>
           ELSE /\ resp'.code = 200
                /\ agents'[a] = [agents[a] EXCEPT !.credits = @ - m]
                /\ agents'[r] = [agents[r] EXCEPT !.credits = @ + m]
                /\ \A b \in AgentIds \ {a, r} : agents'[b] = agents[b]
                /\ UNCHANGED <<listings, transactions, ratings>>]_vars

\* a transfer has moved credits from one agent to another
C3_Witness ==
  /\ resp = Response("transfer", 200, "Transferred")
  /\ \E a \in AgentIds, b \in AgentIds, m \in TransferAmounts :
       /\ agents[a].credits = DEFAULT_AGENT_CREDITS - m
       /\ agents[b].credits = DEFAULT_AGENT_CREDITS + m

(***************************************************************************)
(* Races between requests.                                                 *)
(***************************************************************************)
Succeeded(i) == reqs[i].pc = "done" /\ reqs[i].code \in {200, 201}

\* C6: nothing guards the stock between a purchase's validation and its
\* commit: a purchase that has validated the listing it read always
\* commits, storing the quantity it read less the quantity it buys,
\* whatever was stored meanwhile, and adds its transaction; so two
\* purchases that read the same stock both succeed.
C6_StockUnguarded ==
  [][\A i \in RequestIds :
       commit_purchase(i) =>
         /\ listings'[reqs[i].lid].quantity = reqs[i].row.quantity - reqs[i].q
         /\ Len(transactions') = Len(transactions) + 1
         /\ transactions'[Len(transactions')].listing_id = reqs[i].lid
         /\ transactions'[Len(transactions')].quantity = reqs[i].q
         /\ reqs'[i].code = 201]_vars

\* the units of a listing sold by the first k transactions
RECURSIVE UnitsSold(_, _)
UnitsSold(l, k) ==
  IF k = 0 THEN 0
  ELSE UnitsSold(l, k - 1) + (IF transactions[k].listing_id = l THEN transactions[k].quantity ELSE 0)

\* two purchases that read the same listing row have both succeeded and
\* together sold more units than the row held
C6_Witness ==
  \E i \in DOMAIN reqs, j \in DOMAIN reqs :
    /\ i # j
    /\ reqs[i].op = "buy" /\ reqs[j].op = "buy"
    /\ Succeeded(i) /\ Succeeded(j)
    /\ reqs[i].lid = reqs[j].lid
    /\ reqs[i].row = reqs[j].row
    /\ reqs[i].q + reqs[j].q > reqs[i].row.quantity
    /\ UnitsSold(reqs[i].lid, Len(transactions)) > reqs[i].row.quantity

Cost(rq) == IF rq.op = "buy" THEN rq.row.price * rq.q ELSE rq.amount

\* C7: nothing guards the balance between a spending request's credit
\* check and its commit: the commit of a purchase or of a transfer stores
\* the balance the request read less its cost, whatever was stored
\* meanwhile; so two requests of one agent that read the same balance both
\* pass the check, and the debit of the one that commits first is lost.
C7_CreditsUnguarded ==
  [][\A i \in RequestIds :
       (commit_purchase(i) \/ commit_transfer(i)) =>
         /\ Cost(reqs[i]) <= reqs[i].agent.credits
         /\ agents'[reqs[i].caller].credits = reqs[i].agent.credits - Cost(reqs[i])
         /\ reqs'[i].code \in {200, 201}]_vars

\* two spending requests of one agent read the same balance, cost more than
\* it together, and both succeeded; the stored balance shows one debit only
C7_Witness ==
  \E i \in DOMAIN reqs, j \in DOMAIN reqs :
    /\ i # j
    /\ reqs[i].op = "buy" /\ reqs[j].op = "transfer"
    /\ Succeeded(i) /\ Succeeded(j)
    /\ reqs[i].caller = reqs[j].caller
    /\ reqs[i].agent.credits = reqs[j].agent.credits
    /\ Cost(reqs[i]) + Cost(reqs[j]) > reqs[i].agent.credits
    /\ agents[reqs[i].caller].credits
         \in {reqs[i].agent.credits - Cost(reqs[i]), reqs[i].agent.credits - Cost(reqs[j])}

(***************************************************************************)
(* Rating averages.                                                        *)
(***************************************************************************)
Received(a) == {r \in ratings : r.ratee_id = a}

\* C11: with requests handled one at a time, an accepted rating of score
\* s adds 1 to the ratee's rating_count and sets its rating_avg to
\* round((oldAvg * oldCount + s) / (oldCount + 1), 2) (hundredths here);
\* rating_count is the number of stored ratings of the ratee; from 0
\* ratings the scores 5, 3, 4 give 5.0, then 4.0, then 4.0.
C11_RatingUpdate ==
  /\ [](\A a \in AgentIds : agents[a].rating_count = Cardinality(Received(a)))
  /\ [][resp' = Response("rate", 201, "created") =>
          \E r \in ratings' \ ratings :
            /\ ratings' = ratings \cup {r}
            /\ create_rating(r.rater_id, r.transaction_id, r.score)
            /\ LET old == agents[r.ratee_id]
                   new == agents'[r.ratee_id]
                   sc == r.score
               IN /\ new.rating_count = old.rating_count + 1
                  /\ 2 * Abs(old.rating_avg * old.rating_count + 100 * sc
                               - new.rating_avg * new.rating_count) <= new.rating_count
                  /\ (old.rating_count = 0 /\ sc = 5) => new.rating_avg = 500
                  /\ (old.rating_count = 1 /\ old.rating_avg = 500 /\ sc = 3) => new.rating_avg = 400
                  /\ (old.rating_count = 2 /\ old.rating_avg = 400 /\ sc = 4) => new.rating_avg = 400]_vars

\* the seller has received the scores 5, 3 and 4 and stands at 4.0 of 3
C11_Witness ==
  /\ resp = Response("rate", 201, "created")
  /\ agents["a1"].rating_count = 3
  /\ agents["a1"].rating_avg = 400
  /\ {r.score : r \in Received("a1")} = {3, 4, 5}

\* the sum of the scores of a set of ratings
RECURSIVE ScoreSum(_)
ScoreSum(rs) ==
  IF rs = {} THEN 0
  ELSE LET r == CHOOSE x \in rs : TRUE IN r.score + ScoreSum(rs \ {r})

\* C12 as stated: every agent's rating_avg is the mean of the scores it
\* has received, rounded to 2 decimals, and 0.0 when it has received none.
C12_RunningMean ==
  \A a \in AgentIds :
    IF Received(a) = {} THEN agents[a].rating_avg = 0
    ELSE agents[a].rating_avg
           \in RoundDivSet(100 * ScoreSum(Received(a)), Cardinality(Received(a)))

(***************************************************************************)
(* Registration challenges.                                                *)
(***************************************************************************)
\* the verification of this register request succeeded
Verified ==
  resp'.code = 201 \/ resp'.detail \in {"Email already registered", "IntegrityError"}

\* the time this step's request took
Took == {el \in ElapsedInputs : now' = now + el}

\* the challenge is stored, unexpired and answered correctly within the
\* time budget by a request that takes el
Answerable(c, ans, el) ==
  /\ c \in DOMAIN active_challenges
  /\ ~(active_challenges[c].expires_at < now + el)
  /\ el <= active_challenges[c].max_response_time_ms
  /\ strip(ans) = strip(active_challenges[c].expected_answer)

\* C13: a challenge that was issued and is no longer stored is never stored
\* again; a register request with a correct answer, within the time budget,
\* for a stored, unexpired challenge is never left unverified; a verified
\* request is one for a stored challenge, which it removes; and a request
\* for a challenge that is not stored fails with
\* challenge_not_found_or_expired.  Hence each issued challenge is verified
\* at most once.
C13_SingleUse ==
  /\ [][\A c \in 1..n_challenges :
          c \notin DOMAIN active_challenges => c \notin DOMAIN active_challenges']_vars
  /\ [][(resp'.op = "register" /\ ~Verified) =>
          \A c \in DOMAIN active_challenges, ans \in AnswerInputs, el \in Took :
            Answerable(c, ans, el) => ~register_agent(c, ans, None, el)]_vars
  /\ [][(resp'.op = "register" /\ Verified) =>
          \A c \in ChallengeIds \ (DOMAIN active_challenges \ DOMAIN active_challenges'),
             ans \in AnswerInputs, el \in Took :
            ~register_agent(c, ans, None, el)]_vars
  /\ [][(/\ resp'.op = "register"
         /\ resp' # Response("register", 400, "challenge_not_found_or_expired")) =>
          \A c \in ChallengeIds \ DOMAIN active_challenges,
             ans \in AnswerInputs, el \in Took :
            ~register_agent(c, ans, None, el)]_vars

\* every challenge has been issued and verified, each registering an agent,
\* and a further submission, before any challenge could expire, is refused
C13_Witness ==
  /\ n_challenges = MaxChallenges
  /\ DOMAIN active_challenges = {}
  /\ Cardinality(DOMAIN agents) = Cardinality(AgentIds) + MaxChallenges
  /\ now < CHALLENGE_LIFETIME_MS
  /\ resp = Response("register", 400, "challenge_not_found_or_expired")

\* C14 as stated: a registration submitted more than 30,000 ms after its
\* challenge was issued is rejected with response_too_slow (403), also when
\* the answer is correct and the challenge has not expired.
C14_TooSlow ==
  [][resp'.op = "register" =>
       \A c \in DOMAIN active_challenges, ans \in AnswerInputs, el \in Took :
         ( /\ ~(active_challenges[c].expires_at < now + el)
           /\ strip(ans) = strip(active_challenges[c].expected_answer)
           /\ now - active_challenges[c].created_at > MAX_RESPONSE_TIME_MS
           /\ register_agent(c, ans, None, el) )
         => resp' = Response("register", 403, "response_too_slow")]_vars

\* the agents a step adds
Registered == DOMAIN agents' \ DOMAIN agents

\* C15: no step changes or removes an agent; a step adds an agent only as
\* a register request whose challenge was stored, unexpired and answered
\* correctly and whose email, if given, no agent had: it adds exactly one
\* agent, active, with the starting credits and that email; a register
\* request that is refused adds no agent and changes no key or email, and
\* one that passes the verification with the email of an agent is refused
\* with 400.
C15_Registration ==
  [][/\ \A a \in DOMAIN agents : a \in DOMAIN agents' /\ agents'[a] = agents[a]
     /\ Registered # {} =>
          /\ resp'.op = "register" /\ resp'.code = 201
          /\ \E c \in ChallengeIds, ans \in AnswerInputs, e \in EmailInputs, el \in ElapsedInputs :
               /\ register_agent(c, ans, e, el)
               /\ Answerable(c, ans, el)
               /\ e # None => \A a \in DOMAIN agents : email[a] # e
               /\ \E id \in Registered :
                    /\ Registered = {id}
                    /\ agents'[id].status = "active"
                    /\ agents'[id].credits = DEFAULT_AGENT_CREDITS
                    /\ email'[id] = e
     /\ (resp'.op = "register" /\ resp'.code # 201) =>
          /\ Registered = {}
          /\ UNCHANGED <<agents, email, api_key_hash, last_active_at>>
     /\ (/\ resp'.op = "register"
         /\ resp' # Response("register", 400, "Email already registered")) =>
          \A c \in DOMAIN active_challenges, ans \in AnswerInputs, el \in Took :
            Answerable(c, ans, el) =>
              \A e \in {email[a] : a \in DOMAIN agents} \ {None, <<"">>} :
                ~register_agent(c, ans, e, el)]_vars

\* a registration was refused because an agent registered earlier has the
\* email
C15_Witness ==
  /\ resp = Response("register", 400, "Email already registered")
  /\ "a4" \in DOMAIN agents
  /\ "a5" \notin DOMAIN agents
  /\ email["a4"] # None
  /\ agents["a4"].credits = DEFAULT_AGENT_CREDITS


(***************************************************************************)
(* Authentication.                                                         *)
(***************************************************************************)
\* the agents whose stored hash is the hash of the key
Holder(k) == {a \in DOMAIN agents : api_key_hash[a] = hash_api_key(k)}

Malformed(k) == k = NoKey \/ k.prefix # API_KEY_PREFIX

\* everything a request can write except the response and last_active_at
Stored == <<agents, listings, transactions, ratings, reqs, registry, guardian, community, bootstrap, library>>

\* C16: get_current_agent refuses with 401 a key that is absent, lacks the
\* prefix or matches no stored hash, and with 403 a key of a banned or
\* suspended agent, and accepts every other key as its holder; a refused
\* request changes nothing; a request that is not refused is made by an
\* agent that holds a key and is neither banned nor suspended, and stamps
\* that agent's last_active_at; and when the handler only reads (GET
\* /agents/me) that stamp is the only change.
C16_Authentication ==
  /\ [](\A k \in KeyInputs :
          LET r == get_current_agent(k)
          IN IF Malformed(k) \/ Holder(k) = {}
               THEN ~r.ok /\ r.code = 401
             ELSE IF \E a \in Holder(k) : agents[a].status \in {"banned", "suspended"}
               THEN ~r.ok /\ r.code = 403
             ELSE r.ok /\ Holder(k) = {r.agent})
  /\ [][(resp'.op = "auth" /\ now' = now) =>
          /\ UNCHANGED <<Stored, last_active_at>>
          /\ \E k \in KeyInputs :
               /\ Malformed(k) \/ Holder(k) = {}
                    \/ \E a \in Holder(k) : agents[a].status \in {"banned", "suspended"}
               /\ unauthenticated(k)]_vars
  /\ [][(resp'.op # "auth" /\ now' = now) =>
          \E a \in AgentIds :
            /\ agents[a].status \notin {"banned", "suspended"}
            /\ \E k \in KeyInputs : ~Malformed(k) /\ a \in Holder(k)
            /\ last_active_at' = [last_active_at EXCEPT ![a] = now]]_vars
  /\ [][(resp'.op = "me" /\ now' = now) => UNCHANGED Stored]_vars

\* after a transfer and some time, a request of the suspended or banned
\* agent was refused with 403
C16_Witness ==
  /\ resp.op = "auth" /\ resp.code = 403
  /\ now > 0
  /\ \E a \in AgentIds : last_active_at[a] = now
  /\ agents["a1"].credits # DEFAULT_AGENT_CREDITS

\* C17: a step of regenerate_api_key is made under the key that
\* authenticated the agent; after it that key is refused with 401 and the
\* new key authenticates as the same agent; a key that was minted and
\* matches no agent is refused with 401 ever after; and at no time do two
\* keys authenticate as the same agent.
C17_KeyRegeneration ==
  /\ [](\A a \in AgentIds : Cardinality({k \in KeyInputs : WithKey(k, a)}) <= 1)
  /\ [][n_keys' # n_keys =>
          \E a \in AgentIds, old \in KeyInputs :
            /\ WithKey(old, a)
            /\ regenerate_api_key(a)
            /\ get_current_agent(old)' =
                 [ok |-> FALSE, code |-> 401, detail |-> "Invalid API key.", agent |-> "-"]
            /\ get_current_agent(create_api_key(n_keys))' =
                 [ok |-> TRUE, code |-> 200, detail |-> "-", agent |-> a]]_vars
  /\ [][\A k \in KeyInputs :
          (k.prefix = API_KEY_PREFIX /\ k.random \in 1..n_keys /\ Holder(k) = {}) =>
            get_current_agent(k)'.code = 401]_vars

\* every key the bound allows has been minted and the last request, under a
\* key that matches no agent, was refused with 401
C17_Witness ==
  /\ n_keys = MaxKeys
  /\ resp = Response("auth", 401, "Invalid API key.")
  /\ \E k \in KeyInputs : k.random \in 1..n_keys /\ Holder(k) = {}

(***************************************************************************)
(* Guardian review of listings.                                            *)
(***************************************************************************)
\* a step in which the Guardian reviewed a listing, and the log entry of
\* that review
Reviewed == moderation_logs' # moderation_logs
ReviewLog == moderation_logs'[Len(moderation_logs')]

TrustedBefore(a) == a \notin DOMAIN agent_trust_scores \/ agent_trust_scores[a].is_trusted
Warnings(scores, a) == IF a \in DOMAIN scores THEN scores[a].warnings ELSE 0
Violations(scores, a) == IF a \in DOMAIN scores THEN scores[a].violations ELSE 0

\* the submissions that this step's review entry can belong to
Submitted == {t \in TextInputs : _calculate_severity(t) = ReviewLog.severity}

\* C18: the action of every review is exactly one of approved, warning,
\* flagged and removed: approved iff the text is safe and of severity 0;
\* else warning iff the severity is at most 2 and the agent was trusted;
\* else flagged iff the severity is at most 4; else removed, which is the
\* case of the severities 5..10.  A warning adds one warning, a removal one
\* violation, nothing else adds either, and exactly a flagged review
\* queues the content.
C18_FirstMatch ==
  [][Reviewed =>
       \A text \in Submitted, p \in PriceInputs :
         create_listing(ReviewLog.agent_id, text, p, 1) =>
           LET a == ReviewLog.agent_id
               action == ReviewLog.action
               safe == check_content_safety(text).is_safe
               sev == _calculate_severity(text)
               clean == safe /\ sev = 0
               mild == sev <= 2 /\ TrustedBefore(a)
           IN /\ action \in {"approved", "warning", "flagged", "removed"}
              /\ action = "approved" <=> clean
              /\ action = "warning" <=> ~clean /\ mild
              /\ action = "flagged" <=> ~clean /\ ~mild /\ sev <= 4
              /\ action = "removed" <=> sev \in 5..10
              /\ Warnings(agent_trust_scores', a) - Warnings(agent_trust_scores, a)
                   = IF action = "warning" THEN 1 ELSE 0
              /\ Violations(agent_trust_scores', a) - Violations(agent_trust_scores, a)
                   = IF action = "removed" THEN 1 ELSE 0
              /\ IF action = "flagged"
                   THEN /\ "listing:pending" \in DOMAIN flagged_content'
                        /\ flagged_content'["listing:pending"].agent_id = a
                        /\ flagged_content'["listing:pending"].status = "pending_review"
                 ELSE flagged_content' = flagged_content]_vars

\* one agent got a warning for a text and, no longer trusted, had a text of
\* the same severity flagged
C18_Witness ==
  \E i, j \in DOMAIN moderation_logs :
    /\ i < j
    /\ moderation_logs[i].action = "warning"
    /\ moderation_logs[j].action = "flagged"
    /\ moderation_logs[i].agent_id = moderation_logs[j].agent_id
    /\ moderation_logs[i].severity = moderation_logs[j].severity

\* C19: a listing is created only in a step that reviews it, with the
\* action approved; a review with the action warning, flagged or removed is
\* answered with 400 by the Guardian and creates no listing, and a price is
\* only refused after an approved review.
C19_OnlyApproved ==
  /\ [][Len(listings') > Len(listings) =>
          Reviewed /\ ReviewLog.action = "approved" /\ resp'.code = 201]_vars
  /\ [][(Reviewed /\ ReviewLog.action \in {"warning", "flagged", "removed"}) =>
          /\ resp' = Response("create_listing", 400, "Guardian Review")
          /\ listings' = listings]_vars
  /\ [][(Reviewed /\ resp'.detail \in {"Minimum listing price", "Maximum listing price"}) =>
          ReviewLog.action = "approved"]_vars

\* a listing exists, and the last submission, which earned a warning, was
\* refused by the Guardian
C19_Witness ==
  /\ Len(listings) = 1
  /\ moderation_logs # <<>>
  /\ moderation_logs[Len(moderation_logs)].action = "warning"
  /\ resp = Response("create_listing", 400, "Guardian Review")

\* C20 as stated: when a trusted agent submits, at a valid price, a text of
\* severity 1 or 2, one warning is recorded against it and the listing is
\* created.
C20_WarningCreates ==
  [][Reviewed =>
       \A text \in Submitted :
         ( /\ _calculate_severity(text) \in {1, 2}
           /\ TrustedBefore(ReviewLog.agent_id)
           /\ create_listing(ReviewLog.agent_id, text, 333, 1) )
         => /\ _calculate_severity({"unlock"}) = 1
            /\ Warnings(agent_trust_scores', ReviewLog.agent_id)
                 = Warnings(agent_trust_scores, ReviewLog.agent_id) + 1
            /\ Len(listings') = Len(listings) + 1
            /\ resp'.code = 201]_vars

(***************************************************************************)
(* Guardian's ledger of warnings and violations.                           *)
(***************************************************************************)
\* the positions of the agent_suspended entries about agent a
Suspensions(logs, a) ==
  {i \in DOMAIN logs : logs[i].action = "agent_suspended" /\ logs[i].agent_id = a}

\* C21: a removed listing review adds exactly one violation to the
\* submitting agent (and none to another agent) and leaves it untrusted,
\* already at its first violation; the log holds no agent_suspended entry
\* about an agent with fewer than 3 violations and holds one from the step
\* that records its third violation on.
C21_Violations ==
  /\ [](\A a \in AgentIds :
         /\ Violations(agent_trust_scores, a) < 3 => Suspensions(moderation_logs, a) = {}
         /\ Violations(agent_trust_scores, a) >= 3 => Suspensions(moderation_logs, a) # {}
         /\ Violations(agent_trust_scores, a) >= 1 => ~agent_trust_scores[a].is_trusted)
  /\ [][(Reviewed /\ ReviewLog.action = "removed") =>
          LET a == ReviewLog.agent_id
          IN /\ Violations(agent_trust_scores', a) = Violations(agent_trust_scores, a) + 1
             /\ ~agent_trust_scores'[a].is_trusted
             /\ \A b \in AgentIds \ {a} :
                  Violations(agent_trust_scores', b) = Violations(agent_trust_scores, b)
             /\ Violations(agent_trust_scores', a) = 3 =>
                  /\ Suspensions(moderation_logs, a) = {}
                  /\ Suspensions(moderation_logs', a) = {Len(moderation_logs') - 1}]_vars

\* an agent's third removed listing has been logged together with its
\* suspension, while the other agent has one violation and no suspension
C21_Witness ==
  \E a, b \in AgentIds :
    /\ Violations(agent_trust_scores, a) = 3
    /\ Suspensions(moderation_logs, a) # {}
    /\ Violations(agent_trust_scores, b) = 1
    /\ Suspensions(moderation_logs, b) = {}

\* C22: an agent with 3 warnings is untrusted, whether or not it has a
\* violation, and an agent with fewer than 3 warnings and no violation is
\* trusted; an untrusted agent stays untrusted; no agent has more than 3
\* warnings, because a text of severity 1 or 2 submitted by an untrusted
\* agent is flagged and adds no warning.
C22_Warnings ==
  /\ [](\A a \in DOMAIN agent_trust_scores :
         LET trust == agent_trust_scores[a]
         IN /\ trust.warnings >= 3 => ~trust.is_trusted
            /\ (trust.warnings < 3 /\ trust.violations = 0) => trust.is_trusted
            /\ trust.warnings <= 3)
  /\ [][\A a \in AgentIds : ~TrustedBefore(a) => ~agent_trust_scores'[a].is_trusted]_vars
  /\ [][(Reviewed /\ ReviewLog.action = "warning") =>
          LET a == ReviewLog.agent_id
          IN /\ TrustedBefore(a)
             /\ Warnings(agent_trust_scores', a) = 3 =>
                  ~agent_trust_scores'[a].is_trusted /\ ReviewLog.trust_score = 65]_vars
  /\ [][(Reviewed /\ ReviewLog.severity \in 1..2 /\ ~TrustedBefore(ReviewLog.agent_id)) =>
          /\ ReviewLog.action = "flagged"
          /\ Warnings(agent_trust_scores', ReviewLog.agent_id)
               = Warnings(agent_trust_scores, ReviewLog.agent_id)]_vars

\* an agent with three warnings and no violation is untrusted, and its
\* next text of severity 1 has been flagged
C22_Witness ==
  /\ moderation_logs # <<>>
  /\ LET last == moderation_logs[Len(moderation_logs)]
     IN /\ last.action = "flagged"
        /\ last.severity = 1
        /\ last.agent_id \in DOMAIN agent_trust_scores
        /\ agent_trust_scores[last.agent_id].warnings = 3
        /\ agent_trust_scores[last.agent_id].violations = 0
        /\ ~agent_trust_scores[last.agent_id].is_trusted

(***************************************************************************)
(* The moderation log.                                                     *)
(***************************************************************************)
\* the entries a step appends to the log
Appended == SubSeq(moderation_logs', Len(moderation_logs) + 1, Len(moderation_logs'))

\* C23: no step removes or changes an entry of the moderation log; the ids
\* of the log are distinct and their counters increase strictly in log
\* order, the last one being the Guardian's counter; every create_listing
\* and every create_category request, whatever it is answered, appends
\* exactly one entry about the submitted listing or category, as the last
\* entry, and the only other entry a step appends is the agent_suspended
\* entry of a removal.
C23_AppendOnly ==
  /\ [][/\ Len(moderation_logs') >= Len(moderation_logs)
         /\ SubSeq(moderation_logs', 1, Len(moderation_logs)) = moderation_logs]_vars
  /\ [](\A i, j \in DOMAIN moderation_logs :
         i < j => /\ moderation_logs[i].id # moderation_logs[j].id
                  /\ moderation_logs[i].id.counter < moderation_logs[j].id.counter)
  /\ [](moderation_logs # <<>> =>
         moderation_logs[Len(moderation_logs)].id.counter = _log_counter)
  /\ [][\A text \in LogInputs :
          create_listing("a1", text, 333, 1) =>
            /\ Len(Appended) \in {1, 2}
            /\ ReviewLog.target_type = "listing"
            /\ ReviewLog.target_id = "pending"
            /\ ReviewLog.agent_id = "a1"
            /\ resp'.code \in {201, 400}
            /\ Len(Appended) = 2 =>
                 /\ Appended[1].action = "agent_suspended"
                 /\ ReviewLog.action = "removed"]_vars
  /\ [][\A c \in CategoryInputs :
          create_category("a1", c.name, IF c.description = None THEN <<>> ELSE c.description,
                          c.parent_id) =>
            /\ Len(Appended) = 1
            /\ ReviewLog.target_type = "category"
            /\ ReviewLog.target_id = c.name
            /\ ReviewLog.agent_id = "a1"
            /\ resp'.code \in {201, 400}]_vars

\* the log holds the entry of a category, and the entry of a third removed
\* listing right after the agent_suspended entry it caused
C23_Witness ==
  /\ \E i \in DOMAIN moderation_logs : moderation_logs[i].target_type = "category"
  /\ \E i \in DOMAIN moderation_logs :
       /\ moderation_logs[i].action = "agent_suspended"
       /\ i + 1 \in DOMAIN moderation_logs
       /\ moderation_logs[i + 1].action = "removed"
       /\ moderation_logs[i + 1].id.counter = i + 1

(***************************************************************************)
(* The Guardian's suspension and the Agent table.                          *)
(***************************************************************************)
\* C24: an agent the log holds an agent_suspended entry about has the
\* status active and its key authenticates; no Guardian review changes a
\* row or a key of the Agent table; and the requests of such an agent are
\* handled as before: GET /agents/me answers 200, a clean listing at a valid
\* price is created, and a transfer is refused only for the reasons that
\* refuse anyone's.
C24_SuspensionOnlyLogged ==
  /\ [](\A a \in AgentIds :
         Suspensions(moderation_logs, a) # {} =>
           /\ Violations(agent_trust_scores, a) >= 3
           /\ agents[a].status = "active"
           /\ WithKey(FirstKey(a), a)
           /\ ENABLED (WithKey(FirstKey(a), a) /\ get_current_agent_info(a)))
  /\ [][Reviewed => agents' = agents /\ api_key_hash' = api_key_hash]_vars
  /\ [][\A a \in {"a1", "a2"} :
          Suspensions(moderation_logs, a) # {} =>
            /\ ~unauthenticated(FirstKey(a))
            /\ get_current_agent_info(a) => resp' = Response("me", 200, a)
            /\ create_listing(a, CleanText, 333, 1) =>
                 /\ resp' = Response("create_listing", 201, "created")
                 /\ Len(listings') = Len(listings) + 1
            /\ \A r \in AgentIds :
                 transfer_credits(a, r, 70000) =>
                   (resp'.code = 200 <=> (r # a /\ agents[a].credits >= 70000))]_vars

\* an agent suspended by the Guardian has just created a listing
C24_Witness ==
  /\ moderation_logs # <<>>
  /\ resp = Response("create_listing", 201, "created")
  /\ LET last == moderation_logs[Len(moderation_logs)]
     IN /\ last.action = "approved"
        /\ Suspensions(moderation_logs, last.agent_id) # {}
        /\ agents[last.agent_id].status = "active"

(***************************************************************************)
(* The flagged-content map.                                                *)
(***************************************************************************)
Flagged(logs) == {i \in DOMAIN logs : logs[i].action = "flagged" /\ logs[i].target_type = "listing"}

\* C25 as stated: the flagged-content map holds one pending listing entry
\* for each flagged listing submission, and no step overwrites or removes
\* an entry of the map.
C25_FlaggedQueue ==
  /\ [](Cardinality({k \in DOMAIN flagged_content :
                       /\ flagged_content[k].type = "listing"
                       /\ flagged_content[k].status = "pending_review"})
          = Cardinality(Flagged(moderation_logs)))
  /\ [][\A k \in DOMAIN flagged_content :
          k \in DOMAIN flagged_content' /\ flagged_content'[k] = flagged_content[k]]_vars

(***************************************************************************)
(* The life of a listing.                                                  *)
(***************************************************************************)
Sold == {l \in DOMAIN listings : listings[l].status = "sold"}

\* C26: no step changes a field or the view count of a listing whose
\* status is sold: the seller's update and delete are answered 400,
\* another agent's update and delete 403, a purchase 400, and a fetch
\* leaves the view count as it is.
C26_SoldFrozen ==
  /\ [][\A l \in Sold :
          /\ listings'[l] = listings[l]
          /\ ViewCount(view_count', l) = ViewCount(view_count, l)]_vars
  /\ [][resp'.op = "update_listing" =>
          \A l \in Sold, a \in {"a1", "a2"}, u \in LifeUpdates :
            update_listing(a, l, u) =>
              resp' = IF a = listings[l].seller_id
                        THEN Response("update_listing", 400, "Cannot update a sold listing")
                      ELSE Response("update_listing", 403,
                                    "Not authorized to update this listing")]_vars
  /\ [][resp'.op = "delete_listing" =>
          \A l \in Sold, a \in {"a1", "a2"} :
            delete_listing(a, l) =>
              resp' = IF a = listings[l].seller_id
                        THEN Response("delete_listing", 400, "Cannot delete a sold listing")
                      ELSE Response("delete_listing", 403,
                                    "Not authorized to delete this listing")]_vars
  /\ [][resp'.op = "buy" =>
          \A l \in Sold, a \in {"a1", "a2"} :
            create_purchase(a, l, 1, None) => resp'.code = 400 /\ transactions' = transactions]_vars
  /\ [][resp'.op = "get_listing" =>
          \A l \in Sold, k \in ViewKeys :
            get_listing(k, l) =>
              /\ view_count' = view_count
              /\ resp'.code = IF get_optional_agent(k) = listings[l].seller_id
                                THEN 200 ELSE 404]_vars

\* a listing that was viewed and then sold out by a purchase, and whose
\* seller has just been refused an update
C26_Witness ==
  /\ resp = Response("update_listing", 400, "Cannot update a sold listing")
  /\ \E l \in Sold :
       /\ listings[l].quantity = 0
       /\ ViewCount(view_count, l) = 1
       /\ \E t \in DOMAIN transactions : transactions[t].listing_id = l

\* C27 as stated: a step changes the status of a listing only from active
\* to sold, in a purchase that takes its last unit, or to cancelled, in a
\* delete by its seller; so a cancelled listing never becomes active again.
C27_TwoTransitions ==
  [][\A l \in DOMAIN listings :
       listings'[l].status # listings[l].status =>
         \/ /\ listings[l].status = "active"
            /\ listings'[l].status = "sold"
            /\ listings'[l].quantity = 0
            /\ resp' = Response("buy", 201, "created")
         \/ /\ listings'[l].status = "cancelled"
            /\ resp' = Response("delete_listing", 200, "Listing cancelled")]_vars

(***************************************************************************)
(* The watchlist.                                                          *)
(***************************************************************************)
\* C28: no two watchlist items have the same agent and listing, and no
\* item is about a listing of the agent itself.  A watch request for a
\* listing that does not exist or is not active is answered 404, else for
\* the caller's own listing 400, else for a listing the caller watches
\* 400, and none of these adds an item; any other watch request, also one
\* that follows an unwatch of the same listing, adds the item.  An unwatch
\* removes the caller's item and no other.
C28_Watchlist ==
  /\ [](\A i, j \in DOMAIN watchlist :
         (watchlist[i].agent_id = watchlist[j].agent_id
            /\ watchlist[i].listing_id = watchlist[j].listing_id) => i = j)
  /\ [](\A i \in DOMAIN watchlist :
         /\ watchlist[i].listing_id \in DOMAIN listings
         /\ listings[watchlist[i].listing_id].seller_id # watchlist[i].agent_id)
  /\ [][resp'.op = "watch" =>
          \A a \in AgentIds, l \in ListingIds :
            add_to_watchlist(a, l, TRUE, TRUE) =>
              LET missing == l \notin DOMAIN listings \/ ListingRow(listings, l).status # "active"
                  own == ~missing /\ listings[l].seller_id = a
                  watched == \E i \in DOMAIN watchlist :
                               watchlist[i].agent_id = a /\ watchlist[i].listing_id = l
              IN /\ missing => resp'.code = 404
                 /\ own => resp'.code = 400
                 /\ (watched /\ ~missing) => resp'.code = 400
                 /\ (missing \/ own \/ watched) => watchlist' = watchlist
                 /\ ~(missing \/ own \/ watched) =>
                      /\ resp'.code = 200
                      /\ Len(watchlist') = Len(watchlist) + 1
                      /\ watchlist'[Len(watchlist')].agent_id = a
                      /\ watchlist'[Len(watchlist')].listing_id = l]_vars
  /\ [][resp'.op = "unwatch" =>
          \A a \in AgentIds, l \in ListingIds :
            remove_from_watchlist(a, l) =>
              LET kept == {[agent_id |-> watchlist[i].agent_id,
                            listing_id |-> watchlist[i].listing_id] : i \in DOMAIN watchlist}
                  left == {[agent_id |-> watchlist'[i].agent_id,
                            listing_id |-> watchlist'[i].listing_id] : i \in DOMAIN watchlist'}
              IN left = kept \ {[agent_id |-> a, listing_id |-> l]}]_vars

\* only one listing exists, and the agent that watches it does so with
\* the second item it created: it watched, unwatched and watched again;
\* its last request, to watch once more, was refused
C28_Witness ==
  /\ Len(listings) = 1
  /\ Len(watchlist) = 1
  /\ watchlist[1].id = "w2"
  /\ n_items = 2
  /\ resp = Response("watch", 400, "Already watching this listing")

(***************************************************************************)
(* Reading messages.                                                       *)
(***************************************************************************)
\* the unread messages of a thread that agent_id sent to a
Unread(rows, a, agent_id, listing_id) ==
  {m \in Thread(rows, a, agent_id, listing_id) :
     rows[m].sender_id = agent_id /\ rows[m].receiver_id = a /\ ~rows[m].is_read}

\* C29 as stated: right after a fetch of the conversation of a with an
\* agent (of one listing when a listing is given) that thread holds no
\* unread message from that agent to a.
C29_AllRead ==
  [][(resp'.op = "conversation" /\ resp'.code = 200) =>
       \A a \in {"a1", "a2"}, agent_id \in {"a1", "a2"}, l \in ListingFilters,
          page \in PageInputs, page_size \in PageSizes :
         get_conversation(a, agent_id, l, page, page_size) =>
           Unread(messages', a, agent_id, l) = {}]_vars

\* C30: no step removes a message, and a step changes a message only by
\* setting is_read from false to true together with read_at, in a request
\* of its receiver.  A mark-read by an agent who is not the receiver is
\* answered 403 and changes no message; a mark-read of a read message by
\* its receiver is answered 200 and changes no message; a fetch of a
\* conversation changes only messages that the caller received.
C30_ReadOnce ==
  /\ [][/\ Len(messages') >= Len(messages)
         /\ \A m \in DOMAIN messages :
              messages'[m] # messages[m] =>
                /\ ~messages[m].is_read
                /\ messages'[m] = [messages[m] EXCEPT !.is_read = TRUE, !.read_at = now]
                /\ resp'.op \in {"conversation", "mark_read"}
                /\ resp'.code = 200
                /\ last_active_at'[messages[m].receiver_id] = now]_vars
  /\ [][resp'.op = "mark_read" =>
          \A a \in {"a1", "a2"}, m \in DOMAIN messages :
            mark_message_read(a, m) =>
              IF a # messages[m].receiver_id
                THEN resp'.code = 403 /\ messages' = messages
              ELSE IF messages[m].is_read
                THEN resp'.code = 200 /\ messages' = messages
              ELSE /\ resp'.code = 200
                   /\ messages'[m].is_read
                   /\ messages'[m].read_at = now]_vars
  /\ [][resp'.op = "conversation" =>
          \A a \in {"a1", "a2"}, agent_id \in {"a1", "a2"} :
            get_conversation(a, agent_id, None, 1, 50) =>
              \A m \in DOMAIN messages :
                messages'[m] # messages[m] => messages[m].receiver_id = a]_vars

\* every message was read at time 0, and the last request, made later by
\* a receiver, marked one of them read again
C30_Witness ==
  /\ now = 280000
  /\ messages # <<>>
  /\ \A m \in DOMAIN messages : messages[m].is_read /\ messages[m].read_at = 0
  /\ resp = Response("mark_read", 200, "Message marked as read")
  /\ \E a \in AgentIds : last_active_at[a] = 280000

(***************************************************************************)
(* The rate limit.                                                         *)
(***************************************************************************)
\* C31: once RATE_LIMIT_PER_MINUTE requests of a client address have been
\* handled within a minute, its next request within that minute is
\* answered 429 and reaches no handler.
C31_RateLimited ==
  [][\A client \in ClientAddresses :
       (Window(served, client).n >= RATE_LIMIT_PER_MINUTE /\ request(client)) =>
         (resp'.code = 429 /\ served' = served)]_vars

(***************************************************************************)
(* Slugs of the categories.                                                *)
(***************************************************************************)
\* C32: no two categories share a slug; seeding again adds nothing; and a
\* category whose name has the slug of a category is refused with 400 and
\* adds nothing.
C32_UniqueSlugs ==
  /\ [](\A i, j \in DOMAIN categories :
          categories[i].slug = categories[j].slug => i = j)
  /\ [][/\ lifespan => categories' = categories
        /\ \A name \in CategoryNames :
             (slugify(name) \in Slugs(categories) /\ create_category("a1", name, <<>>, None))
               => (resp'.code = 400 /\ categories' = categories)]_vars

\* a second name of a slug was refused after a restart that added nothing
C32_Witness ==
  /\ Len(categories) = Len(default_categories) + MaxCategories
  /\ moderation_logs # <<>>
  /\ _log_counter < Len(categories) - Len(default_categories)
  /\ resp = Response("create_category", 400, "Category with this name already exists")
  /\ \E name \in CategoryNames :
       /\ slugify(name) \in Slugs(categories)
       /\ \A i \in DOMAIN categories : categories[i].name # name

(***************************************************************************)
(* The fee.                                                                *)
(***************************************************************************)
\* C33: for every amount, calculate_transaction_fee returns the fee
\* round(amount * fee_percent / 100, 2) and the net round(amount - fee, 2),
\* fee + net is the amount rounded to 2 decimals, and for 100.0 at 2.5
\* per cent it returns (2.5, 97.5).
C33_FeePlusNet ==
  (call.fn = "calculate_transaction_fee" /\ call.returned) =>
    /\ call.fee \in {10 * k : k \in RoundDivSet(call.amount * call.fee_percent, 10000)}
    /\ call.net \in {10 * k : k \in RoundDivSet(call.amount - call.fee, 10)}
    /\ call.fee + call.net = call.total
    /\ call.amount = 100000 => (call.fee = 2500 /\ call.net = 97500)

(***************************************************************************)
(* The errors of the SDK.                                                  *)
(***************************************************************************)
\* C34: for a response with a status of 400 or more, _request raises
\* MarketplaceError with that status code; its message is the detail of
\* the body where the body is a JSON object with one, and the text of the
\* response where the body is no JSON object or no JSON at all.
C34_TypedError ==
  (call.fn = "_request" /\ call.done /\ call.response.status_code >= 400) =>
    LET body == call.response.body
    IN /\ call.outcome.raised = "MarketplaceError"
       /\ call.outcome.status_code = call.response.status_code
       /\ (body.kind = "object" /\ "detail" \in DOMAIN body.object)
            => call.outcome.message = <<"API error: ", body.object.detail>>
       /\ body.kind # "object" => call.outcome.message = <<"API error: ", body.text>>

(***************************************************************************)
(* What a verification removes.                                            *)
(***************************************************************************)
\* C35: a registration removes the challenge it names from the store when
\* the verification succeeds or finds it expired, and leaves the store as
\* it was when the challenge is unknown, the response too slow or the
\* answer wrong; a stored challenge that has not expired is verified by
\* its expected answer, so a wrong answer can be retried.
C35_RemovedOnSuccessOrExpiry ==
  /\ [](\A c \in DOMAIN active_challenges :
          active_challenges[c].expires_at >= now =>
            verify_registration(c, active_challenges[c].expected_answer, now, now).is_valid)
  /\ [][\A c \in ChallengeIds, ans \in AnswerInputs, el \in ElapsedInputs :
          register_agent(c, ans, None, el) =>
            /\ resp'.detail \in {"verified", "verified_fast_response", "challenge_expired"}
                 => (/\ c \in DOMAIN active_challenges
                     /\ active_challenges' = Without(active_challenges, {c}))
            /\ resp'.detail \in {"challenge_not_found_or_expired", "response_too_slow",
                                  "incorrect_answer"}
                 => active_challenges' = active_challenges
            /\ resp'.detail = "challenge_not_found_or_expired"
                 <=> c \notin DOMAIN active_challenges]_vars

\* a wrong answer was refused and its challenge, not yet expired, is still
\* stored, after an earlier challenge was used up
C35_Witness ==
  /\ resp = Response("register", 403, "incorrect_answer")
  /\ n_challenges > Cardinality(DOMAIN active_challenges)
  /\ \E c \in DOMAIN active_challenges : active_challenges[c].expires_at >= now

(***************************************************************************)
(* The challenge of a registration refused for its email.                  *)
(***************************************************************************)
\* C40: a registration refused because its email is registered answered
\* the challenge correctly and has removed it from the store; a removed
\* challenge never returns, and a registration that names a challenge not
\* in the store, whatever its email, is refused with
\* challenge_not_found_or_expired.
C40_ChallengeBeforeEmail ==
  [][\A c \in ChallengeIds :
       /\ (c <= n_challenges /\ c \notin DOMAIN active_challenges)
            => c \notin DOMAIN active_challenges'
       /\ \A ans \in AnswerInputs :
            ~(/\ resp'.detail = "Email already registered" =>
                   /\ c \in DOMAIN active_challenges
                   /\ strip(ans) = strip(active_challenges[c].expected_answer)
                   /\ c \notin DOMAIN active_challenges'
                   /\ agents' = agents
              /\ c \notin DOMAIN active_challenges =>
                   resp' = Response("register", 400, "challenge_not_found_or_expired"))
              => ((resp'.op = "register" /\ now' - now \in ElapsedInputs)
                    => \A e \in EmailInputs : ~register_agent(c, ans, e, now' - now))]_vars

\* a registration was refused for its email before any challenge expired,
\* and no challenge is left
C40_Witness ==
  /\ resp = Response("register", 400, "Email already registered")
  /\ n_challenges >= 2
  /\ active_challenges = <<>>
  /\ now < CHALLENGE_LIFETIME_MS

(***************************************************************************)
(* Conservation of credits.                                                *)
(***************************************************************************)
\* the credits of the agents of a set
RECURSIVE CreditsOf(_, _)
CreditsOf(rows, ids) ==
  IF ids = {} THEN 0
  ELSE LET a == CHOOSE x \in ids : TRUE
       IN rows[a].credits + CreditsOf(rows, ids \ {a})

TotalCredits(rows) == CreditsOf(rows, DOMAIN rows)

\* over the first k transactions: the total_amount of those not delivered
\* and what the platform kept of those delivered
RECURSIVE HeldAndKept(_, _)
HeldAndKept(txs, k) ==
  IF k = 0 THEN 0
  ELSE HeldAndKept(txs, k - 1)
         + (IF txs[k].completed_at THEN txs[k].total_amount - txs[k].net_amount
            ELSE txs[k].total_amount)

\* C36: the agents' credits, the total_amount of the transactions not
\* delivered and total_amount - net_amount of the delivered ones add up to
\* the starting credits of every registered agent; a request that changes
\* an agent's credits is a successful transfer, purchase or delivery, or
\* the registration that created the agent; and the total of the credits
\* grows only by a registration or a delivery.
C36_CreditsConserved ==
  /\ [](TotalCredits(agents) + HeldAndKept(transactions, Len(transactions))
          = DEFAULT_AGENT_CREDITS * Cardinality(DOMAIN agents))
  /\ [][agents' # agents =>
          /\ \A a \in DOMAIN agents' :
               (a \notin DOMAIN agents \/ agents'[a].credits # agents[a].credits) =>
                 IF a \in DOMAIN agents
                   THEN \/ resp'.code = 200 /\ resp'.op \in {"transfer", "deliver"}
                        \/ resp' = Response("buy", 201, "created")
                   ELSE /\ resp'.op = "register" /\ resp'.code = 201
                        /\ agents'[a].credits = DEFAULT_AGENT_CREDITS
          /\ TotalCredits(agents') > TotalCredits(agents) =>
               \/ resp'.op = "register" /\ resp'.code = 201
               \/ /\ resp' = Response("deliver", 200, "ok")
                  /\ \E t \in DOMAIN transactions :
                       /\ ~transactions[t].completed_at /\ transactions'[t].completed_at
                       /\ TotalCredits(agents')
                            = TotalCredits(agents) + transactions[t].net_amount]_vars

\* a fourth agent has registered and was sent credits, and a sale of which
\* the platform kept a part is delivered
C36_Witness ==
  /\ Cardinality(DOMAIN agents) > Cardinality(AgentIds)
  /\ \E a \in DOMAIN agents \ AgentIds : agents[a].credits > DEFAULT_AGENT_CREDITS
  /\ \E t \in DOMAIN transactions :
       /\ transactions[t].completed_at
       /\ transactions[t].total_amount > transactions[t].net_amount

(***************************************************************************)
(* The life of a transaction.                                              *)
(***************************************************************************)
\* the status changes of a transaction row from one state to the next
StatusChanges ==
  {<<"pending", "completed">>, <<"pending", "disputed">>, <<"completed", "disputed">>}

\* disputed before it was delivered
DisputedWhilePending(tx) == tx.status = "disputed" /\ ~tx.completed_at

\* C37: a transaction is never deleted; its status stays or changes from
\* pending to completed (by a deliver), from pending to disputed or from
\* completed to disputed (by a dispute), so disputed is final and failed and
\* refunded are never reached; a transaction disputed while pending is
\* never delivered: every deliver of it is refused, the credits of no agent
\* change for it, and the credits of its buyer never grow.
C37_StatusTransitions ==
  /\ [](\A t \in DOMAIN transactions : transactions[t].status \in {"pending", "completed", "disputed"})
  /\ [][\A t \in DOMAIN transactions :
          LET tx == transactions[t]
          IN /\ t \in DOMAIN transactions'
             /\ transactions'[t].status # tx.status =>
                  /\ <<tx.status, transactions'[t].status>> \in StatusChanges
                  /\ resp'.op = (IF transactions'[t].status = "completed" THEN "deliver"
                                 ELSE "dispute")
                  /\ resp'.code = 200
             /\ DisputedWhilePending(tx) =>
                  /\ transactions'[t] = tx
                  /\ agents'[tx.buyer_id].credits <= agents[tx.buyer_id].credits
                  /\ resp'.op = "deliver" =>
                       \A a \in AgentIds, n \in SellerNoteInputs :
                         deliver_transaction(a, t, n) =>
                           /\ resp'.code # 200
                           /\ agents' = agents]_vars

\* the seller tried to deliver a transaction that its buyer had disputed
\* while it was pending, and was refused
C37_Witness ==
  /\ resp = Response("deliver", 400, "Transaction cannot be delivered")
  /\ \E t \in DOMAIN transactions :
       /\ DisputedWhilePending(transactions[t])
       /\ transactions[t].buyer_notes # None
       /\ agents[transactions[t].buyer_id].credits
            = DEFAULT_AGENT_CREDITS - transactions[t].total_amount
       /\ agents[transactions[t].seller_id].credits = DEFAULT_AGENT_CREDITS

(***************************************************************************)
(* Credits are never negative.                                             *)
(***************************************************************************)
\* C38: with requests handled one at a time no agent's credits are below
\* 0; an agent's credits fall only by a purchase it makes, by price *
\* quantity, or by a transfer it sends, by the amount, and in both cases by
\* no more than it had.
C38_CreditsNotNegative ==
  /\ [](\A a \in DOMAIN agents : agents[a].credits >= 0)
  /\ [][agents' # agents =>
          \A a \in DOMAIN agents :
            agents'[a].credits < agents[a].credits =>
              LET paid == agents[a].credits - agents'[a].credits
              IN /\ paid <= agents[a].credits
                 /\ \/ /\ resp' = Response("buy", 201, "created")
                       /\ Len(transactions') = Len(transactions) + 1
                       /\ LET tx == transactions'[Len(transactions')]
                          IN /\ tx.buyer_id = a
                             /\ paid = tx.total_amount
                             /\ paid = listings[tx.listing_id].price * tx.quantity
                    \/ /\ resp' = Response("transfer", 200, "Transferred")
                       /\ \E r \in DOMAIN agents \ {a} :
                            agents'[r].credits = agents[r].credits + paid]_vars

\* an agent has sent all its credits and a further transfer was refused,
\* and a buyer has paid for a purchase
C38_Witness ==
  /\ resp = Response("transfer", 400, "Insufficient credits")
  /\ \E a \in DOMAIN agents : agents[a].credits = 0
  /\ \E t \in DOMAIN transactions :
       agents[transactions[t].buyer_id].credits < DEFAULT_AGENT_CREDITS

(***************************************************************************)
(* The stock of a listing and its status.                                  *)
(***************************************************************************)
\* C39: every active listing has a quantity of at least 1 and every sold
\* listing has quantity 0, whatever listings the seller creates, updates
\* and deletes and whatever is purchased.
C39_StockMatchesStatus ==
  \A l \in DOMAIN listings :
    /\ listings[l].status = "active" => listings[l].quantity >= 1
    /\ listings[l].status = "sold" => listings[l].quantity = 0

====
